---- MODULE Spec2Model ----
(***************************************************************************)
(* Verification models of the command-line utilities of this repository.   *)
(* The utilities are independent programs, so every program has its own    *)
(* variables, its own actions and its own specification; a specification    *)
(* leaves the variables of the other programs at their idle values.        *)
(*                                                                         *)
(*   SpecFS    04-textfs   compress_folder / decompress_folder             *)
(*   SpecAnon  01-anon     anonymize_file / deanonymize_file               *)
(*   SpecOrg   11-folderorgs  downloads organizer, steps 1 to 5            *)
(*   SpecDP    05-audio    tanakh_splitter, choice of the verse boundaries *)
(*   SpecDeny  06-db       security suite, DENY-over-GRANT notes           *)
(*   SpecCsv   07-converters  csv2xlsx, chunk files and sheets              *)
(*   SpecXl    07-converters  xlsx2tsql, the SQL type of a column           *)
(*   SpecClean 06-db       security suite, the server-level cleanup        *)
(***************************************************************************)
EXTENDS Integers, Sequences, FiniteSets, TLC

VARIABLES
    fs,         \* textfs: the filesystem, a function path -> node
    fsCalls,    \* textfs: the calls made so far, each with the tree of its src before the call
    anInput,    \* anon: the table read by the last anonymize_file run
    anCols,     \* anon: the PII columns of the last run
    anOutput,   \* anon: the anonymised table of the last run (as returned, and as written)
    anMapFile,  \* anon: the mapping file: column -> ordered (original, token) pairs
    anMapBefore,\* anon: the mapping the last run started from
    anRestored, \* anon: the table restored from anOutput, and the way it was restored
    anRuns,     \* anon: the number of anonymize_file runs so far
    orgFs,      \* organizer: the tree under --root, a function path -> entry
    orgInit,    \* organizer: the tree before the first run
    orgCall,    \* organizer: the last run: its step and its --dry-run flag
    dpIn,       \* splitter: total_duration, verse_count, the silences detected for each threshold
    dpOut,      \* splitter: the function called, whether it raised, the silences it returned
    dnIn,       \* security suite: the Roles and Permissions sheets of the workbook
    dnOut,      \* security suite: the stage reached, the loaded roles and rows, the DENY notes
    csvIn,      \* csv2xlsx: the rows of the CSV file and the command-line arguments
    csvOut,     \* csv2xlsx: the return code of main and the files saved, in the order of saving
    xlIn,       \* xlsx2tsql: the header and the cells of the column of the first worksheet
    xlOut,      \* xlsx2tsql: the return code of main and the type declared for the column
    clIn,       \* security suite: the loaded rows of the four sheets that name logins
    clOut       \* security suite: managed_logins and the filters of the two cleanup batches

fsVars == <<fs, fsCalls>>

anVars == <<anInput, anCols, anOutput, anMapFile, anMapBefore, anRestored, anRuns>>

orgVars == <<orgFs, orgInit, orgCall>>

dpVars == <<dpIn, dpOut>>

dnVars == <<dnIn, dnOut>>

csvVars == <<csvIn, csvOut>>

xlVars == <<xlIn, xlOut>>

clVars == <<clIn, clOut>>

vars == <<fs, fsCalls, anInput, anCols, anOutput, anMapFile, anMapBefore, anRestored, anRuns,
          orgFs, orgInit, orgCall, dpIn, dpOut, dnIn, dnOut, csvIn, csvOut, xlIn, xlOut,
          clIn, clOut>>

(***************************************************************************)
(* Generic helpers                                                         *)
(***************************************************************************)
IsPrefix(p, q) == Len(p) <= Len(q) /\ SubSeq(q, 1, Len(p)) = p

Min2(a, b) == IF a <= b THEN a ELSE b

Max2(a, b) == IF a >= b THEN a ELSE b

Abs(x) == IF x < 0 THEN -x ELSE x

\* The value a conversion yields where the Python code raises.
Err == <<-1>>

(***************************************************************************)
(* 04-textfs/zstd_textfs/core.py                                           *)
(***************************************************************************)

\* ---- bytes <-> text ----------------------------------------------------

\* str.encode("utf-8") on a string of code points below 2048.
RECURSIVE Utf8Encode(_)
Utf8Encode(s) ==
    IF s = <<>> THEN <<>>
    ELSE LET c == Head(s)
         IN  (IF c < 128 THEN <<c>> ELSE <<192 + (c \div 64), 128 + (c % 64)>>)
             \o Utf8Encode(Tail(s))

\* bytes.decode("utf-8"); Err where Python raises UnicodeDecodeError.
RECURSIVE Utf8Decode(_)
Utf8Decode(b) ==
    IF b = <<>> THEN <<>>
    ELSE IF b[1] < 128
         THEN LET r == Utf8Decode(Tail(b)) IN IF r = Err THEN Err ELSE <<b[1]>> \o r
    ELSE IF b[1] >= 194 /\ b[1] < 224 /\ Len(b) >= 2 /\ b[2] >= 128 /\ b[2] < 192
         THEN LET r == Utf8Decode(SubSeq(b, 3, Len(b)))
              IN  IF r = Err THEN Err ELSE <<(b[1] - 192) * 64 + (b[2] - 128)>> \o r
    ELSE Err

\* The URL-safe Base-64 alphabet, as character codes: A-Z a-z 0-9 - _
B64Alphabet ==
    [i \in 1..64 |->
        IF i <= 26 THEN 64 + i
        ELSE IF i <= 52 THEN 96 + (i - 26)
        ELSE IF i <= 62 THEN 47 + (i - 52)
        ELSE IF i = 63 THEN 45 ELSE 95]

B64Char(v) == B64Alphabet[v + 1]

B64Value(c) == CHOOSE v \in 0..63 : B64Alphabet[v + 1] = c

IsB64Char(c) == \E v \in 0..63 : B64Alphabet[v + 1] = c

PadChar == 61

\* base64.urlsafe_b64encode: groups of three bytes, "=" padded.
RECURSIVE B64EncodePadded(_)
B64EncodePadded(d) ==
    IF d = <<>> THEN <<>>
    ELSE IF Len(d) = 1 THEN
        <<B64Char(d[1] \div 4), B64Char((d[1] % 4) * 16), PadChar, PadChar>>
    ELSE IF Len(d) = 2 THEN
        <<B64Char(d[1] \div 4), B64Char((d[1] % 4) * 16 + (d[2] \div 16)),
          B64Char((d[2] % 16) * 4), PadChar>>
    ELSE
        <<B64Char(d[1] \div 4), B64Char((d[1] % 4) * 16 + (d[2] \div 16)),
          B64Char((d[2] % 16) * 4 + (d[3] \div 64)), B64Char(d[3] % 64)>>
        \o B64EncodePadded(SubSeq(d, 4, Len(d)))

\* str.rstrip("=")
RECURSIVE RStripPad(_)
RStripPad(s) ==
    IF s /= <<>> /\ s[Len(s)] = PadChar THEN RStripPad(SubSeq(s, 1, Len(s) - 1)) ELSE s

_b64_encode(d) == RStripPad(B64EncodePadded(d))

\* binascii.a2b_base64 on the data characters (non-alphabet characters are
\* discarded by the non-validating decoder before this point).
RECURSIVE B64DecodeChars(_)
B64DecodeChars(s) ==
    IF Len(s) < 2 THEN <<>>
    ELSE LET a == B64Value(s[1])
             b == B64Value(s[2])
         IN  IF Len(s) = 2 THEN <<a * 4 + (b \div 16)>>
             ELSE LET c == B64Value(s[3])
                  IN  IF Len(s) = 3 THEN <<a * 4 + (b \div 16), (b % 16) * 16 + (c \div 4)>>
                      ELSE <<a * 4 + (b \div 16), (b % 16) * 16 + (c \div 4),
                             (c % 4) * 64 + B64Value(s[4])>>
                           \o B64DecodeChars(SubSeq(s, 5, Len(s)))

_b64_decode(s) ==
    LET chars == SelectSeq(s, IsB64Char)
    IN  IF Len(chars) % 4 = 1 THEN Err ELSE B64DecodeChars(chars)

\* str.strip(): leading and trailing ASCII whitespace removed.
IsSpace(c) == c \in {9, 10, 11, 12, 13, 32}

RECURSIVE Strip(_)
Strip(s) ==
    IF s /= <<>> /\ IsSpace(s[1]) THEN Strip(Tail(s))
    ELSE IF s /= <<>> /\ IsSpace(s[Len(s)]) THEN Strip(SubSeq(s, 1, Len(s) - 1))
    ELSE s

\* ---- the Zstandard frame ----------------------------------------------
\* compress_bytes delegates to the codec.  For the short inputs of this model
\* the codec emits one frame holding one raw block: magic number, frame header
\* descriptor (single segment, one-byte content size), content size, three-byte
\* block header (last block, raw, size), then the bytes themselves.
ZstdMagic == <<40, 181, 47, 253>>

ZstdSingleSegment == 32

compress_bytes(d) ==
    ZstdMagic \o <<ZstdSingleSegment, Len(d)>>
              \o <<(Len(d) * 8 + 1) % 256, (Len(d) * 8 + 1) \div 256, 0>> \o d

\* decompress_bytes; Err where the codec reports an invalid frame.
decompress_bytes(z) ==
    IF z = Err \/ Len(z) < 9 THEN Err
    ELSE IF SubSeq(z, 1, 4) /= ZstdMagic \/ z[5] /= ZstdSingleSegment THEN Err
    ELSE IF z[6] /= Len(z) - 9 THEN Err
    ELSE IF z[7] + 256 * z[8] /= z[6] * 8 + 1 \/ z[9] /= 0 THEN Err
    ELSE SubSeq(z, 10, Len(z))

_encode_name(name) == _b64_encode(compress_bytes(Utf8Encode(name)))

_decode_name(name) ==
    LET original == decompress_bytes(_b64_decode(name))
    IN  IF original = Err THEN Err ELSE Utf8Decode(original)

\* The text _compress_file writes for a file holding `data`.
CompressedText(data) == _b64_encode(compress_bytes(data))

\* The bytes _decompress_file writes for a file holding `text`.
DecompressedBytes(text) == decompress_bytes(_b64_decode(Strip(text)))
\* ---- the filesystem ---------------------------------------------------
\* A path is a sequence of names, a name a sequence of character codes.  The
\* filesystem maps every existing path to its node; <<>> is the top directory.
DirNode == [kind |-> "dir", data |-> <<>>]

FileNode(data) == [kind |-> "file", data |-> data]

Exists(f, p) == p \in DOMAIN f

IsDir(f, p) == p \in DOMAIN f /\ f[p].kind = "dir"

\* shutil.rmtree(p)
RmTree(f, p) == [q \in {r \in DOMAIN f : ~IsPrefix(p, r)} |-> f[q]]

\* os.makedirs(p, exist_ok=True)
MakeDirs(f, p) ==
    [q \in DOMAIN f \cup {SubSeq(p, 1, k) : k \in 0..Len(p)} |->
        IF q \in DOMAIN f THEN f[q] ELSE DirNode]

\* open(p, "w").write(data)
WriteFile(f, p, data) ==
    [q \in DOMAIN f \cup {p} |-> IF q = p THEN FileNode(data) ELSE f[q]]

\* The names os.walk lists under directory p: (dirs, files).
ChildDirs(f, p) == {q[Len(q)] : q \in {r \in DOMAIN f : Len(r) = Len(p) + 1 /\ IsPrefix(p, r) /\ f[r].kind = "dir"}}

ChildFiles(f, p) == {q[Len(q)] : q \in {r \in DOMAIN f : Len(r) = Len(p) + 1 /\ IsPrefix(p, r) /\ f[r].kind = "file"}}

\* The tree below p, as a function from relative paths to nodes (the empty
\* function when p does not exist).
Subtree(f, p) ==
    [rel \in {SubSeq(q, Len(p) + 1, Len(q)) : q \in {r \in DOMAIN f : IsPrefix(p, r)}} |-> f[p \o rel]]

EncodeParts(rel) == [i \in 1..Len(rel) |-> _encode_name(rel[i])]

DecodeParts(rel) == [i \in 1..Len(rel) |-> _decode_name(rel[i])]

\* compress_folder, the body of one os.walk iteration's "for dirname in dirs".
RECURSIVE CompressMakeDirs(_, _, _)
CompressMakeDirs(f, dst_root, dirs) ==
    IF dirs = {} THEN f
    ELSE LET d == CHOOSE x \in dirs : TRUE
         IN  CompressMakeDirs(MakeDirs(f, dst_root \o <<_encode_name(d)>>), dst_root, dirs \ {d})

\* compress_folder, "for filename in files": _compress_file on each.
RECURSIVE CompressFiles(_, _, _, _)
CompressFiles(f, root, dst_root, files) ==
    IF files = {} THEN f
    ELSE LET n == CHOOSE x \in files : TRUE
         IN  CompressFiles(
                 WriteFile(f, dst_root \o <<_encode_name(n)>>, CompressedText(f[root \o <<n>>].data)),
                 root, dst_root, files \ {n})

\* compress_folder, the os.walk loop from directory src \o rel downwards
\* (top-down: a directory's own iteration, then its sub-directories).
RECURSIVE CompressWalk(_, _, _, _)
RECURSIVE CompressDescend(_, _, _, _, _)
CompressWalk(f, src, dst, rel) ==
    LET root == src \o rel
    IN  IF ~IsDir(f, root) THEN f
        ELSE LET dirs     == ChildDirs(f, root)
                 files    == ChildFiles(f, root)
                 dst_root == dst \o EncodeParts(rel)
                 f1       == MakeDirs(f, dst_root)
                 f2       == CompressMakeDirs(f1, dst_root, dirs)
                 f3       == CompressFiles(f2, root, dst_root, files)
             IN  CompressDescend(f3, src, dst, rel, dirs)

CompressDescend(f, src, dst, rel, dirs) ==
    IF dirs = {} THEN f
    ELSE LET d == CHOOSE x \in dirs : TRUE
         IN  CompressDescend(CompressWalk(f, src, dst, rel \o <<d>>), src, dst, rel, dirs \ {d})

\* compress_folder(src, dst): the filesystem after the call.
compress_folder(f, src, dst) ==
    LET f0 == IF Exists(f, dst) THEN RmTree(f, dst) ELSE f
        f1 == MakeDirs(f0, dst)
    IN  CompressWalk(f1, src, dst, <<>>)

RECURSIVE DecompressMakeDirs(_, _, _)
DecompressMakeDirs(f, dst_root, dirs) ==
    IF dirs = {} THEN f
    ELSE LET d == CHOOSE x \in dirs : TRUE
         IN  DecompressMakeDirs(MakeDirs(f, dst_root \o <<_decode_name(d)>>), dst_root, dirs \ {d})

RECURSIVE DecompressFiles(_, _, _, _)
DecompressFiles(f, root, dst_root, files) ==
    IF files = {} THEN f
    ELSE LET n == CHOOSE x \in files : TRUE
         IN  DecompressFiles(
                 WriteFile(f, dst_root \o <<_decode_name(n)>>, DecompressedBytes(f[root \o <<n>>].data)),
                 root, dst_root, files \ {n})

RECURSIVE DecompressWalk(_, _, _, _)
RECURSIVE DecompressDescend(_, _, _, _, _)
DecompressWalk(f, src, dst, rel) ==
    LET root == src \o rel
    IN  IF ~IsDir(f, root) THEN f
        ELSE LET dirs     == ChildDirs(f, root)
                 files    == ChildFiles(f, root)
                 dst_root == dst \o DecodeParts(rel)
                 f1       == MakeDirs(f, dst_root)
                 f2       == DecompressMakeDirs(f1, dst_root, dirs)
                 f3       == DecompressFiles(f2, root, dst_root, files)
             IN  DecompressDescend(f3, src, dst, rel, dirs)

DecompressDescend(f, src, dst, rel, dirs) ==
    IF dirs = {} THEN f
    ELSE LET d == CHOOSE x \in dirs : TRUE
         IN  DecompressDescend(DecompressWalk(f, src, dst, rel \o <<d>>), src, dst, rel, dirs \ {d})

\* decompress_folder(src, dst): the filesystem after the call.
decompress_folder(f, src, dst) ==
    LET f0 == IF Exists(f, dst) THEN RmTree(f, dst) ELSE f
        f1 == MakeDirs(f0, dst)
    IN  DecompressWalk(f1, src, dst, <<>>)

\* Every name and every file below src decodes: src is a tree written by
\* compress_folder.  On any other tree decompress_folder raises in
\* _decode_name or _decompress_file.
Decodable(f, src) ==
    \A q \in DOMAIN f :
        IsPrefix(src, q) /\ q /= src =>
            /\ \A i \in (Len(src) + 1)..Len(q) : _decode_name(q[i]) /= Err
            /\ f[q].kind = "file" => DecompressedBytes(f[q].data) /= Err
\* ---- the calls ---------------------------------------------------------
\* The names and the paths of the trees: W/S is the source tree, C and R are
\* siblings of W.
FsNames == [W |-> <<87>>, S |-> <<83>>, C |-> <<67>>, R |-> <<82>>,
            A |-> <<97>>, B |-> <<98>>, Eacute |-> <<233>>]

FsPaths == [W |-> <<FsNames.W>>, S |-> <<FsNames.W, FsNames.S>>,
            C |-> <<FsNames.C>>, R |-> <<FsNames.R>>]

\* Bound: the number of compress_folder / decompress_folder calls of a run.
MaxFsCalls == 2

\* File contents of the initial tree.
FsData == {<<>>, <<200, 10>>}

\* The path arguments of a call.  A dst strictly inside src is left out: the
\* walk then descends into its own output until the OS path limit stops it.
FsSrcArgs == {FsPaths.S, FsPaths.C}

FsDstArgs == {FsPaths.S, FsPaths.C, FsPaths.R, FsPaths.W}

\* The initial trees below FsPaths.S: entry "a" is absent, a file, an empty
\* directory or a directory holding one file; entry "b" is absent or a file.
FsInitialTrees ==
    LET base == [q \in {<<>>, FsPaths.W, FsPaths.S} |-> DirNode]
        withA ==
            {base}
            \cup {WriteFile(base, FsPaths.S \o <<FsNames.A>>, d) : d \in FsData}
            \cup {MakeDirs(base, FsPaths.S \o <<FsNames.A>>)}
            \cup {WriteFile(MakeDirs(base, FsPaths.S \o <<FsNames.A>>),
                            FsPaths.S \o <<FsNames.A, FsNames.Eacute>>, d) : d \in FsData}
    IN  withA \cup {WriteFile(t, FsPaths.S \o <<FsNames.B>>, d) : t \in withA, d \in FsData}

\* Each program runs alone: the variables of the other programs are idle.
OthersIdle(me) ==
    /\ me = "fs" \/ (fs = <<>> /\ fsCalls = <<>>)
    /\ me = "anon" \/ /\ anInput = <<>> /\ anCols = <<>> /\ anOutput = <<>> /\ anMapFile = <<>>
                      /\ anMapBefore = <<>> /\ anRestored = <<>> /\ anRuns = 0
    /\ me = "org" \/ (orgFs = <<>> /\ orgInit = <<>> /\ orgCall = <<>>)
    /\ me = "dp" \/ (dpIn = <<>> /\ dpOut = <<>>)
    /\ me = "deny" \/ (dnIn = <<>> /\ dnOut = <<>>)
    /\ me = "csv" \/ (csvIn = <<>> /\ csvOut = <<>>)
    /\ me = "xl" \/ (xlIn = <<>> /\ xlOut = <<>>)
    /\ me = "clean" \/ (clIn = <<>> /\ clOut = <<>>)

FsFrame == UNCHANGED <<anVars, orgVars, dpVars, dnVars, csvVars, xlVars, clVars>>

AnFrame == UNCHANGED <<fsVars, orgVars, dpVars, dnVars, csvVars, xlVars, clVars>>

OrgFrame == UNCHANGED <<fsVars, anVars, dpVars, dnVars, csvVars, xlVars, clVars>>

DpFrame == UNCHANGED <<fsVars, anVars, orgVars, dnVars, csvVars, xlVars, clVars>>

DnFrame == UNCHANGED <<fsVars, anVars, orgVars, dpVars, csvVars, xlVars, clVars>>

CsvFrame == UNCHANGED <<fsVars, anVars, orgVars, dpVars, dnVars, xlVars, clVars>>

XlFrame == UNCHANGED <<fsVars, anVars, orgVars, dpVars, dnVars, csvVars, clVars>>

ClFrame == UNCHANGED <<fsVars, anVars, orgVars, dpVars, dnVars, csvVars, xlVars>>

FsInit ==
    /\ fs \in FsInitialTrees
    /\ fsCalls = <<>>
    /\ OthersIdle("fs")

FsCall(op, src, dst) == [op |-> op, src |-> src, dst |-> dst, before |-> Subtree(fs, src)]

CompressFolder ==
    /\ Len(fsCalls) < MaxFsCalls
    /\ \E src \in FsSrcArgs, dst \in FsDstArgs :
        /\ ~(IsPrefix(src, dst) /\ src /= dst)
        /\ fs' = compress_folder(fs, src, dst)
        /\ fsCalls' = Append(fsCalls, FsCall("compress", src, dst))
    /\ FsFrame

DecompressFolder ==
    /\ Len(fsCalls) < MaxFsCalls
    /\ \E src \in FsSrcArgs \cup {FsPaths.R}, dst \in FsDstArgs :
        /\ ~(IsPrefix(src, dst) /\ src /= dst)
        /\ Decodable(fs, src)
        /\ fs' = decompress_folder(fs, src, dst)
        /\ fsCalls' = Append(fsCalls, FsCall("decompress", src, dst))
    /\ FsFrame

FsNext == CompressFolder \/ DecompressFolder

SpecFS == FsInit /\ [][FsNext]_vars

\* x is outside the tree s: neither s itself nor below it.
Outside(x, s) == ~IsPrefix(s, x)

\* Two trees share nothing: neither is the other or inside the other.
Disjoint(x, y) == ~IsPrefix(x, y) /\ ~IsPrefix(y, x)

\* A compress_folder call on an existing directory S, then a decompress_folder
\* call on the directory the first call wrote.
IsRoundTrip ==
    /\ Len(fsCalls) = 2
    /\ <<>> \in DOMAIN fsCalls[1].before
    /\ fsCalls[1].op = "compress"
    /\ fsCalls[2].op = "decompress"
    /\ fsCalls[2].src = fsCalls[1].dst

\* C1: compress_folder(S, C) then decompress_folder(C, R), with C and R
\* outside S, leaves in R exactly the tree S held before: the same relative
\* directory and file names (empty directories too) and the same bytes.
C1_RoundTrip ==
    (/\ IsRoundTrip
     /\ Outside(fsCalls[1].dst, fsCalls[1].src)
     /\ Outside(fsCalls[2].dst, fsCalls[1].src))
    => Subtree(fs, fsCalls[2].dst) = fsCalls[1].before

\* The round trip where S, C and R are pairwise disjoint trees: the case in
\* which no call removes a tree it still has to read.
RoundTripDisjointPaths ==
    (/\ IsRoundTrip
     /\ Disjoint(fsCalls[1].src, fsCalls[1].dst)
     /\ Disjoint(fsCalls[2].src, fsCalls[2].dst)
     /\ Disjoint(fsCalls[1].src, fsCalls[2].dst))
    => Subtree(fs, fsCalls[2].dst) = fsCalls[1].before

\* C5: whatever the pair (src, dst), the tree below an existing input
\* directory src is the same after a compress_folder or decompress_folder
\* call as before it.
C5_InputUnchanged ==
    (fsCalls /= <<>> /\ <<>> \in DOMAIN fsCalls[Len(fsCalls)].before) =>
        Subtree(fs, fsCalls[Len(fsCalls)].src) = fsCalls[Len(fsCalls)].before
(***************************************************************************)
(* 01-anon/anon.py                                                         *)
(***************************************************************************)
\* A table maps each column to its cells, one per row.  A cell is a string;
\* Null is pandas' NaN.  Tokens are drawn as in the default mode
\* (deterministic=False); the keyed digest of the deterministic mode picks one
\* of the same draws.
Null == "<NaN>"

\* Bound: rows of an input table.
MaxAnonRows == 2

\* Bound: anonymize_file runs.
MaxAnonRuns == 2

AnColumns == {"state", "zip"}

\* The PII column lists a run is given.
AnColumnLists == {<<"state">>, <<"zip">>, <<"state", "zip">>}

AnCellValues(col) == IF col = "state" THEN {"Texas", "Utah", Null} ELSE {"10001", Null}

\* Two of the names of STATE_NAME_POOL.
StatePool == {"Texas", "Ohio"}

\* Two of the five-digit strings _generate_random_digits(5) can return.
ZipTokens == {"00501", "90210"}

\* TokenGenerator.generate(value, column_name): the tokens it can return.
\* A "state" column takes the _is_state_column branch, a "zip" column the
\* _is_zip_column branch.
GenerateChoices(col, value) == IF col = "state" THEN StatePool ELSE ZipTokens

\* The (column, value) pairs generate() is called with.
AnKeys == {<<"state", "Texas">>, <<"state", "Utah">>, <<"zip", "10001">>}

\* The draws of one run: the token generate() returns for each (column, value).
AnDraws ==
    {g \in [AnKeys -> StatePool \cup ZipTokens] :
        \A cv \in AnKeys : g[cv] \in GenerateChoices(cv[1], cv[2])}

AnTables ==
    UNION {[AnColumns -> [1..n -> {"Texas", "Utah", "10001", Null}]] : n \in 1..MaxAnonRows}

AnInputs == {t \in AnTables : \A c \in AnColumns : \A i \in DOMAIN t[c] : t[c][i] \in AnCellValues(c)}

\* df[column].dropna().unique(): the non-null values in order of first appearance.
RECURSIVE DropnaUnique(_)
DropnaUnique(cells) ==
    IF cells = <<>> THEN <<>>
    ELSE LET rest == DropnaUnique(SubSeq(cells, 1, Len(cells) - 1))
             last == cells[Len(cells)]
         IN  IF last = Null \/ \E i \in DOMAIN rest : rest[i] = last THEN rest
             ELSE Append(rest, last)

\* Series.astype(str): NaN becomes the string "nan".
AsStr(cell) == IF cell = Null THEN "nan" ELSE cell

\* "original_str not in col_mapping"
HasKey(colmap, key) == \E i \in DOMAIN colmap : colmap[i].k = key

\* Series.map(col_mapping): the value of a key, NaN for a key the dict lacks.
Lookup(colmap, key) ==
    IF HasKey(colmap, key)
    THEN colmap[CHOOSE i \in DOMAIN colmap : colmap[i].k = key].v
    ELSE Null

\* {v: k for k, v in col_mapping.items()}, then Series.map: a token held by
\* several keys keeps the key inserted last.
ReverseLookup(colmap, token) ==
    LET hits == {i \in DOMAIN colmap : colmap[i].v = token}
    IN  IF hits = {} THEN Null
        ELSE colmap[CHOOSE i \in hits : \A j \in hits : j <= i].k

\* pseudonymize_dataframe, "for original_value in ...": new values get a token.
RECURSIVE AddTokens(_, _, _, _)
AddTokens(colmap, values, col, gen) ==
    IF values = <<>> THEN colmap
    ELSE LET v == Head(values)
             next == IF HasKey(colmap, v) THEN colmap
                     ELSE Append(colmap, [k |-> v, v |-> gen[<<col, v>>]])
         IN  AddTokens(next, Tail(values), col, gen)

\* _ensure_column_mapping with a fault: the column starts from an empty dict.
FreshColumnMapping(mapping, col) == <<>>

\* self.mapping after _ensure_column_mapping(column) and the token loop.
ColumnMapping(mapping, col) == IF col \in DOMAIN mapping THEN mapping[col] ELSE <<>>

RECURSIVE PseudonymizeMapping(_, _, _, _)
PseudonymizeMapping(mapping, df, cols, gen) ==
    IF cols = <<>> THEN mapping
    ELSE LET col == Head(cols)
             colmap == AddTokens(ColumnMapping(mapping, col), DropnaUnique(df[col]), col, gen)
             next == [c \in DOMAIN mapping \cup {col} |-> IF c = col THEN colmap ELSE mapping[c]]
         IN  PseudonymizeMapping(next, df, Tail(cols), gen)

InList(cols, c) == \E i \in DOMAIN cols : cols[i] = c

\* pseudonymize_dataframe: the returned table, given the mapping it built.
PseudonymizeTable(mapping, df, cols) ==
    [c \in DOMAIN df |->
        IF InList(cols, c)
        THEN [i \in DOMAIN df[c] |-> Lookup(mapping[c], AsStr(df[c][i]))]
        ELSE df[c]]

\* restore_dataframe
restore_dataframe(mapping, df, cols) ==
    [c \in DOMAIN df |->
        IF InList(cols, c)
        THEN [i \in DOMAIN df[c] |-> ReverseLookup(mapping[c], df[c][i])]
        ELSE df[c]]

\* write_file then read_file on a .csv path: pandas.read_csv infers the type
\* of each column, and a column whose non-empty cells are all digit strings
\* comes back as numbers, which equal no string.
IsDigits(cell) == cell \in ZipTokens \cup {"10001"}

AsNumber(cell) ==
    CASE cell = "00501" -> "#501"
      [] cell = "90210" -> "#90210"
      [] cell = "10001" -> "#10001"
      [] OTHER -> cell

ReadCsvColumn(cells) ==
    IF (\E i \in DOMAIN cells : cells[i] /= Null)
       /\ \A i \in DOMAIN cells : cells[i] = Null \/ IsDigits(cells[i])
    THEN [i \in DOMAIN cells |-> AsNumber(cells[i])]
    ELSE cells

read_file(written) == [c \in DOMAIN written |-> ReadCsvColumn(written[c])]

NotRestored == [via |-> "none", table |-> <<>>]

AnInit ==
    /\ anInput = <<>> /\ anCols = <<>> /\ anOutput = <<>>
    /\ anMapFile = <<>> /\ anMapBefore = <<>>
    /\ anRestored = NotRestored
    /\ anRuns = 0
    /\ OthersIdle("anon")

\* anonymize_file(input, output, mapping_path, pii_columns, append_mapping)
AnonymizeFile ==
    /\ anRuns < MaxAnonRuns
    /\ \E df \in AnInputs, cols \in AnColumnLists, append \in BOOLEAN, gen \in AnDraws :
        /\ LET start   == IF append /\ anRuns > 0 THEN anMapFile ELSE <<>>
               mapping == PseudonymizeMapping(start, df, cols, gen)
           IN  /\ anInput' = df
               /\ anCols' = cols
               /\ anMapBefore' = [append |-> append /\ anRuns > 0, mapping |-> start]
               /\ anMapFile' = mapping
               /\ anOutput' = PseudonymizeTable(mapping, df, cols)
    /\ anRestored' = NotRestored
    /\ anRuns' = anRuns + 1
    /\ AnFrame

\* restore_dataframe on the table pseudonymize_dataframe returned, same mapping.
RestoreDataframe ==
    /\ anRuns > 0
    /\ anRestored.via = "none"
    /\ anRestored' = [via |-> "memory", table |-> restore_dataframe(anMapFile, anOutput, anCols)]
    /\ UNCHANGED <<anInput, anCols, anOutput, anMapFile, anMapBefore, anRuns>>
    /\ AnFrame

\* deanonymize_file on the written CSV with the saved mapping file.
DeanonymizeFile ==
    /\ anRuns > 0
    /\ anRestored.via = "none"
    /\ anRestored' = [via |-> "file", table |-> restore_dataframe(anMapFile, read_file(anOutput), anCols)]
    /\ UNCHANGED <<anInput, anCols, anOutput, anMapFile, anMapBefore, anRuns>>
    /\ AnFrame

AnNext == AnonymizeFile \/ RestoreDataframe \/ DeanonymizeFile

SpecAnon == AnInit /\ [][AnNext]_vars

\* C2: pseudonymize_dataframe then restore_dataframe with the same mapping
\* (and anonymize_file then deanonymize_file with the saved mapping file)
\* returns the original value in every row of every PII column.
C2_Reversible ==
    anRestored.via /= "none" =>
        \A c \in AnColumns :
            InList(anCols, c) => anRestored.table[c] = anInput[c]

C16_NoOriginalSurvives ==
    anRuns > 0 =>
        \A c \in AnColumns : \A i \in DOMAIN anInput[c] :
            (InList(anCols, c) /\ anInput[c][i] /= Null) =>
                /\ anOutput[c][i] = Lookup(anMapFile[c], anInput[c][i])
                /\ anOutput[c][i] /= anInput[c][i]

(***************************************************************************)
(* 11-folderorgs: the downloads organizer                                  *)
(*                                                                         *)
(* A file name is the record [base, tags, suffix]: the text                *)
(* base "__" tag1 "__" tag2 ... suffix, where suffix is pathlib's          *)
(* Path.suffix (the last dot and what follows it, "" for a name without    *)
(* one or with only a leading dot).  Path.stem is then base plus tags.     *)
(* A path is the sequence of names below --root; <<>> is the root.         *)
(* An entry is [kind, id]: kind is "file", "dir", "link" (a symbolic link  *)
(* whose target is an existing file outside the tree) or "dangling" (a     *)
(* symbolic link whose target is missing); id tells entries apart, 0 for   *)
(* a directory the organizer made.                                         *)
(***************************************************************************)
OrgName(base, suffix) == [base |-> base, tags |-> <<>>, suffix |-> suffix]

\* f"{stem}__{i}{suffix}"
CollisionName(n, i) == [base |-> n.base, tags |-> Append(n.tags, i), suffix |-> n.suffix]

Root == <<>>

Parent(p) == SubSeq(p, 1, Len(p) - 1)

LastName(p) == p[Len(p)]

OrgEntry(kind, id) == [kind |-> kind, id |-> id]

\* Path.exists(): follows symbolic links, so False for a dangling link.
OrgExists(f, p) == p \in DOMAIN f /\ f[p].kind /= "dangling"

\* Path.is_symlink()
is_symlink(f, p) == p \in DOMAIN f /\ f[p].kind \in {"link", "dangling"}

\* Path.is_dir(): follows symbolic links; the links here lead to files.
is_dir(f, p) == p \in DOMAIN f /\ f[p].kind = "dir"

\* Path.iterdir()
iterdir(f, dir) == {p \in DOMAIN f : Len(p) = Len(dir) + 1 /\ IsPrefix(dir, p)}

\* str.lower() on the name parts used here.
Lower(s) ==
    CASE s = ".PNG" -> ".png"
      [] s = "Desktop" -> "desktop"
      [] s = "DBO" -> "dbo"
      [] s = "T" -> "t"
      [] s = "Reader" -> "reader"
      [] s = "Writer" -> "writer"
      [] OTHER -> s

NameLower(n) == [base |-> Lower(n.base), tags |-> n.tags, suffix |-> Lower(n.suffix)]

\* part.startswith("."): the names used here that begin with a dot.
StartsWithDot(n) == n.base \in {".env", ".git"}

\* is_hidden(path); the parts of --root itself are taken not to begin with a dot.
is_hidden(p) == \E i \in DOMAIN p : StartsWithDot(p[i])

\* The state a handler leaves: the tree, and whether an exception ended it.
OrgSt(f, raised) == [fs |-> f, raised |-> raised]

\* unique_destination(dst)
unique_destination(f, dst) ==
    IF ~OrgExists(f, dst) THEN dst
    ELSE LET Candidate(i) == Append(Parent(dst), CollisionName(LastName(dst), i))
             i == CHOOSE k \in 1..(Cardinality(DOMAIN f) + 1) :
                      /\ ~OrgExists(f, Candidate(k))
                      /\ \A j \in 1..(k - 1) : OrgExists(f, Candidate(j))
         IN  Candidate(i)

\* Path.mkdir(parents=True, exist_ok=True): FileExistsError when the path or
\* one of its parents is there and is not a directory.
RECURSIVE OrgMkdir(_, _)
OrgMkdir(f, p) ==
    IF p \in DOMAIN f THEN OrgSt(f, f[p].kind /= "dir")
    ELSE LET up == OrgMkdir(f, Parent(p))
         IN  IF up.raised THEN up ELSE OrgSt(up.fs @@ (p :> OrgEntry("dir", 0)), FALSE)

\* Path.rename(dst), POSIX rename(2): src and what is below it move to dst.
\* A dst that is there is replaced when src and dst are both non-directories
\* (a symbolic link at dst is replaced, not followed); a directory on either
\* side of an existing dst, or a dst inside src, fails with OSError.
OrgRename(f, src, dst) ==
    IF \/ IsPrefix(src, dst)
       \/ dst \in DOMAIN f /\ (f[src].kind = "dir" \/ f[dst].kind = "dir")
    THEN OrgSt(f, TRUE)
    ELSE LET keep == {q \in DOMAIN f : ~IsPrefix(src, q) /\ q /= dst}
             moved == {dst \o SubSeq(q, Len(src) + 1, Len(q)) : q \in {r \in DOMAIN f : IsPrefix(src, r)}}
         IN  OrgSt([q \in keep \cup moved |->
                        IF q \in keep THEN f[q]
                        ELSE f[src \o SubSeq(q, Len(dst) + 1, Len(q))]], FALSE)

\* _move_with_retries(src, dst): the destination is recomputed, then renamed to.
_move_with_retries(f, src, dst) == OrgRename(f, src, unique_destination(f, dst))

\* ensure_dir(path) and move_path(src, dst): the Action records.
ensure_dir(path) == [kind |-> "mkdir", src |-> Root, dst |-> path]

move_path(src, dst) == [kind |-> "move", src |-> src, dst |-> dst]

\* apply_action without its dry_run returns.
ApplyActionForReal(f, action, dry_run) ==
    IF action.kind = "mkdir" THEN OrgMkdir(f, action.dst)
    ELSE LET made == OrgMkdir(f, Parent(action.dst))
         IN  IF made.raised THEN made
             ELSE _move_with_retries(made.fs, action.src, action.dst)

\* apply_action(action, dry_run=...)
apply_action(f, action, dry_run) ==
    IF action.kind = "mkdir"
    THEN IF dry_run THEN OrgSt(f, FALSE) ELSE OrgMkdir(f, action.dst)
    ELSE IF dry_run THEN OrgSt(f, FALSE)
         ELSE LET made == OrgMkdir(f, Parent(action.dst))
              IN  IF made.raised THEN made
                  ELSE _move_with_retries(made.fs, action.src, action.dst)

\* PurposePaths(root)
PurposePaths ==
    [inbox |-> <<OrgName("00-Inbox", "")>>, work |-> <<OrgName("01-Work", "")>>,
     projects |-> <<OrgName("02-Projects", "")>>, data |-> <<OrgName("03-Data", "")>>,
     reading |-> <<OrgName("04-Reading", "")>>, media |-> <<OrgName("05-Media", "")>>,
     software |-> <<OrgName("06-Software", "")>>, ops |-> <<OrgName("07-Ops-Backups", "")>>,
     archive |-> <<OrgName("99-Archive", "")>>]

PurposeNames == {LastName(PurposePaths[k]) : k \in DOMAIN PurposePaths}

Sub(dir, name) == Append(dir, OrgName(name, ""))

\* required_directories(p)
required_directories ==
    << PurposePaths.inbox, PurposePaths.work, PurposePaths.projects, PurposePaths.data, PurposePaths.reading,
       Sub(PurposePaths.media, "Images"), Sub(PurposePaths.media, "Video"), Sub(PurposePaths.media, "Audio"),
       Sub(PurposePaths.software, "Installers"), Sub(PurposePaths.software, "ISOs"), Sub(PurposePaths.software, "Drivers-SDKs"),
       Sub(PurposePaths.ops, "DB-Backups"), Sub(PurposePaths.ops, "Logs"), Sub(PurposePaths.ops, "Support-Bundles"),
       Sub(PurposePaths.ops, "Certificates-Keys"), PurposePaths.archive >>

\* DownloadsOrganizer.__post_init__: self._protected_names
_protected_names == {OrgName("00-plan", ".md"), OrgName("downloads_organizer", "")}

\* rules.py: the extension sets, the keyword sets (DOMAIN_KEYWORDS in the
\* order of the dict), and the name fragments and marker files of
\* is_project_like_dir.
rules ==
    [MEDIA_IMAGE |-> {".png", ".jpg", ".jpeg", ".gif", ".bmp", ".svg", ".webp", ".tiff"},
     MEDIA_VIDEO |-> {".mp4", ".mov", ".m4v", ".mkv", ".avi", ".webm"},
     MEDIA_AUDIO |-> {".mp3", ".wav", ".flac", ".m4a", ".aac", ".ogg"},
     ARCHIVES |-> {".zip", ".7z", ".tar", ".gz", ".tgz", ".rar"},
     INSTALLERS |-> {".msi", ".exe", ".vsix", ".appinstaller"},
     ISOS |-> {".iso"},
     BACKUPS |-> {".bak", ".dacpac", ".ispac"},
     LOGS |-> {".log", ".oxps"},
     NOTEBOOKS |-> {".ipynb"},
     CODE |-> {".py", ".rb", ".js", ".ts", ".go", ".java", ".cs", ".ps1", ".sh"},
     DATA |-> {".csv", ".tsv", ".xlsx", ".xls", ".xlsm", ".xlsb", ".json", ".xml", ".yaml", ".yml"},
     SQL |-> {".sql"},
     WORK_KEYWORDS |->
        {"twu", "jenzabar", "clover", "salesforce", "integration", "student", "housing",
         "enrollment", "finance", "trial", "tuition", "vena", "payee", "reconcile", "ledger",
         "gl", "ar", "ap", "ssrs", "db", "backup", "prod", "test", "staging", "aq", "j1",
         "jics", "entra", "active directory", "email"},
     READING_KEYWORDS |->
        {"paper", "article", "report", "guide", "handbook", "book", "thesis", "proceedings",
         "cvpr", "arxiv", "pnas", "nature", "springer", "oreilly"},
     DOMAIN_KEYWORDS |->
        << [domain |-> "Finance",
            keys |-> {"finance", "gl", "ledger", "trial", "balance", "tuition", "revenue", "ar ",
                      " ap", "payee", "positivepay", "t2202", "t4a", "vena"}],
           [domain |-> "Student",
            keys |-> {"student", "housing", "residence", "enrol", "enroll", "candidacy", "course"}],
           [domain |-> "Identity",
            keys |-> {"entra", "adp", "active directory", "email", "sso", "ldap", "oauth"}],
           [domain |-> "Integrations",
            keys |-> {"clover", "jenzabar", "salesforce", "wsdl", "sftp", "ssis", "api"}],
           [domain |-> "AI-ML",
            keys |-> {"ai", "ml", "llm", "neural", "graph", "rag", "nlp", "vision", "transformer"}],
           [domain |-> "Security",
            keys |-> {"security", "log4shell", "cert", "rsa", "key", "jks"}] >>,
     ProjectWords |-> {"adapter", "server", "webapi", "app", "clover", "project", "sandbox", "dx"},
     ProjectMarkers |->
        {OrgName("pyproject", ".toml"), OrgName("requirements", ".txt"), OrgName("package", ".json"),
         OrgName(".git", ""), OrgName("go", ".mod"), OrgName("pom", ".xml")}]

\* "k in name" for name = path.name.lower(): the keywords of rules.py that are
\* substrings of the names used here ("webapi" holds "ap", "api" and "webapi";
\* the tags "__i" and the suffixes used here hold none).
KeywordsIn(n) ==
    CASE Lower(n.base) = "webapi" -> {"ap", "api", "webapi"}
      [] Lower(n.base) = "book" -> {"book"}
      [] Lower(n.base) = "course" -> {"course"}
      [] Lower(n.base) = "main" -> {"ai"}
      [] OTHER -> {}

\* path.suffix.lower()
SuffixOf(p) == Lower(LastName(p).suffix)

\* pass1_bucket(path).bucket, "None" for no bucket
pass1_bucket(p) ==
    LET s == SuffixOf(p)
    IN  CASE s \in rules.MEDIA_IMAGE -> "Images"
          [] s \notin rules.MEDIA_IMAGE /\ s \in rules.MEDIA_VIDEO -> "Video"
          [] s \notin rules.MEDIA_IMAGE \cup rules.MEDIA_VIDEO /\ s \in rules.MEDIA_AUDIO -> "Audio"
          [] OTHER ->
                IF s \in rules.INSTALLERS \cup rules.ISOS THEN "Software"
                ELSE IF s \in rules.ARCHIVES THEN "Archives"
                ELSE IF s \in rules.BACKUPS THEN "Backups"
                ELSE IF s \in rules.LOGS THEN "Logs"
                ELSE "None"

looks_like_reading(p) ==
    IF SuffixOf(p) \in {".pdf", ".epub"}
    THEN KeywordsIn(LastName(p)) \cap rules.WORK_KEYWORDS = {}
    ELSE SuffixOf(p) \in {".md", ".txt"} /\ KeywordsIn(LastName(p)) \cap rules.READING_KEYWORDS /= {}

looks_like_work(p) ==
    \/ KeywordsIn(LastName(p)) \cap rules.WORK_KEYWORDS /= {}
    \/ SuffixOf(p) \in rules.SQL \cup rules.NOTEBOOKS

NoDomain == "None"

\* domain_for(path): the first domain of the dict with a keyword in the name
domain_for(p) ==
    LET hits == {i \in DOMAIN rules.DOMAIN_KEYWORDS :
                    KeywordsIn(LastName(p)) \cap rules.DOMAIN_KEYWORDS[i].keys /= {}}
    IN  IF hits = {} THEN NoDomain
        ELSE rules.DOMAIN_KEYWORDS[CHOOSE i \in hits : \A j \in hits : i <= j].domain

\* is_project_like_dir(path)
is_project_like_dir(f, p) ==
    /\ is_dir(f, p)
    /\ \/ KeywordsIn(LastName(p)) \cap rules.ProjectWords /= {}
       \/ \E q \in iterdir(f, p) : LastName(q) \in rules.ProjectMarkers \/ LastName(q).suffix = ".sln"
       \/ Cardinality({q \in DOMAIN f : /\ IsPrefix(p, q) /\ q /= p
                                         /\ f[q].kind = "file"
                                         /\ SuffixOf(q) \in rules.CODE \cup rules.SQL \cup rules.NOTEBOOKS}) >= 10

\* DownloadsOrganizer._should_skip_root_item without the test of the
\* protected names and of the purpose folders.
SkipRootItemUnprotected(f, item, include_hidden) ==
    \/ ~include_hidden /\ is_hidden(item)
    \/ NameLower(LastName(item)) = OrgName("desktop", ".ini")
    \/ is_symlink(f, item)

\* DownloadsOrganizer._should_skip_root_item(item)
_should_skip_root_item(f, item, include_hidden) ==
    \/ LastName(item) \in _protected_names
    \/ LastName(item) \in PurposeNames
    \/ ~include_hidden /\ is_hidden(item)
    \/ NameLower(LastName(item)) = OrgName("desktop", ".ini")
    \/ is_symlink(f, item)

\* DownloadsOrganizer._should_skip_inbox_item(item)
_should_skip_inbox_item(f, item, include_hidden) ==
    \/ ~include_hidden /\ is_hidden(item)
    \/ is_symlink(f, item)

\* No move for this item ("continue", or dst is None).
NoTarget == Root

\* step3: the folder of the bucket
Pass1Target(p) ==
    LET bucket == pass1_bucket(p)
    IN  CASE bucket \in {"Images", "Video", "Audio"} -> Sub(PurposePaths.media, bucket)
          [] bucket = "Software" ->
                IF SuffixOf(p) \in rules.ISOS THEN Sub(PurposePaths.software, "ISOs") ELSE Sub(PurposePaths.software, "Installers")
          [] bucket = "Archives" -> Sub(PurposePaths.archive, "Archives")
          [] bucket = "Backups" -> Sub(PurposePaths.ops, "DB-Backups")
          [] bucket = "Logs" -> Sub(PurposePaths.ops, "Logs")
          [] OTHER -> NoTarget

\* The folder a loop of a step moves the item to.
StepTarget(loop, f, item) ==
    CASE loop = "2" -> PurposePaths.inbox
      [] loop = "3" -> Pass1Target(item)
      [] loop = "4" ->
            IF is_dir(f, item) THEN NoTarget
            ELSE IF looks_like_reading(item) THEN PurposePaths.reading
            ELSE IF looks_like_work(item) THEN PurposePaths.work
            ELSE NoTarget
      [] loop = "5a" ->
            IF is_dir(f, item) /\ is_project_like_dir(f, item) THEN PurposePaths.projects ELSE NoTarget
      [] OTHER ->
            IF domain_for(item) = NoDomain THEN NoTarget
            ELSE IF SuffixOf(item) \in rules.DATA THEN Sub(PurposePaths.data, domain_for(item))
            ELSE Sub(PurposePaths.work, domain_for(item))

\* "for item in items": dst = unique_destination(folder / item.name), then
\* apply_action(move_path(item, dst)); an exception ends the loop.
RECURSIVE MoveLoop(_, _, _, _)
MoveLoop(st, items, loop, dry_run) ==
    IF items = <<>> \/ st.raised THEN st
    ELSE LET item == Head(items)
             folder == StepTarget(loop, st.fs, item)
             dst == unique_destination(st.fs, Append(folder, LastName(item)))
             next == IF folder = NoTarget THEN st
                     ELSE apply_action(st.fs, move_path(item, dst), dry_run)
         IN  MoveLoop(next, Tail(items), loop, dry_run)

\* iterdir() lists in no particular order: every order of the items.
RECURSIVE Orders(_)
Orders(S) ==
    IF S = {} THEN {<<>>}
    ELSE UNION {{<<x>> \o o : o \in Orders(S \ {x})} : x \in S}

InboxItems(f, include_hidden) ==
    {item \in iterdir(f, PurposePaths.inbox) : ~_should_skip_inbox_item(f, item, include_hidden)}

RECURSIVE EnsureAll(_, _, _)
EnsureAll(st, dirs, dry_run) ==
    IF dirs = <<>> \/ st.raised THEN st
    ELSE EnsureAll(apply_action(st.fs, ensure_dir(Head(dirs)), dry_run), Tail(dirs), dry_run)

\* The step methods: the states a step can leave, one for each listing order.
step1_create_structure(f, dry_run, include_hidden) ==
    {EnsureAll(OrgSt(f, FALSE), required_directories, dry_run)}

step2_sweep_into_inbox(f, dry_run, include_hidden) ==
    LET st0 == apply_action(f, ensure_dir(PurposePaths.inbox), dry_run)
        items == {item \in iterdir(st0.fs, Root) :
                    ~_should_skip_root_item(st0.fs, item, include_hidden)}
    IN  IF st0.raised THEN {st0}
        ELSE {MoveLoop(st0, o, "2", dry_run) : o \in Orders(items)}

step3_pass1_obvious_buckets(f, dry_run, include_hidden) ==
    IF ~OrgExists(f, PurposePaths.inbox) THEN {OrgSt(f, FALSE)}
    ELSE LET st0 == apply_action(f, ensure_dir(Sub(PurposePaths.archive, "Archives")), dry_run)
         IN  IF st0.raised \/ ~is_dir(st0.fs, PurposePaths.inbox) THEN {OrgSt(st0.fs, TRUE)}
             ELSE {MoveLoop(st0, o, "3", dry_run) : o \in Orders(InboxItems(st0.fs, include_hidden))}

step4_pass2_work_vs_reading(f, dry_run, include_hidden) ==
    IF ~OrgExists(f, PurposePaths.inbox) THEN {OrgSt(f, FALSE)}
    ELSE IF ~is_dir(f, PurposePaths.inbox) THEN {OrgSt(f, TRUE)}
    ELSE {MoveLoop(OrgSt(f, FALSE), o, "4", dry_run) : o \in Orders(InboxItems(f, include_hidden))}

step5_pass3_domains_and_projects(f, dry_run, include_hidden) ==
    IF ~OrgExists(f, PurposePaths.inbox) THEN {OrgSt(f, FALSE)}
    ELSE IF ~is_dir(f, PurposePaths.inbox) THEN {OrgSt(f, TRUE)}
    ELSE UNION {IF a.raised THEN {a}
                ELSE {MoveLoop(a, o, "5b", dry_run) : o \in Orders(InboxItems(a.fs, include_hidden))} :
                a \in {MoveLoop(OrgSt(f, FALSE), o, "5a", dry_run) :
                          o \in Orders(InboxItems(f, include_hidden))}}

\* run_step(step)
run_step(step, f, dry_run, include_hidden) ==
    CASE step = 1 -> step1_create_structure(f, dry_run, include_hidden)
      [] step = 2 -> step2_sweep_into_inbox(f, dry_run, include_hidden)
      [] step = 3 -> step3_pass1_obvious_buckets(f, dry_run, include_hidden)
      [] step = 4 -> step4_pass2_work_vs_reading(f, dry_run, include_hidden)
      [] OTHER -> step5_pass3_domains_and_projects(f, dry_run, include_hidden)

\* run_all: "for step in range(1, 6)", ended by the first exception
RECURSIVE RunFrom(_, _, _, _)
RunFrom(step, sts, dry_run, include_hidden) ==
    IF step > 5 THEN sts
    ELSE RunFrom(step + 1,
                 UNION {IF st.raised THEN {st} ELSE run_step(step, st.fs, dry_run, include_hidden) :
                            st \in sts},
                 dry_run, include_hidden)

run_all(f, dry_run, include_hidden) == RunFrom(1, {OrgSt(f, FALSE)}, dry_run, include_hidden)

\* The names in the trees the organizer is run on; x1 is a file the user
\* named x__1.PNG.
OrgNames ==
    [x |-> OrgName("x", ".PNG"), x1 |-> CollisionName(OrgName("x", ".PNG"), 1),
     book |-> OrgName("book", ".pdf"), course |-> OrgName("course", ".csv"),
     webapi |-> OrgName("webapi", ""), main |-> OrgName("main", ".py"),
     plan |-> OrgName("00-plan", ".md"), self |-> OrgName("downloads_organizer", ""),
     desktop_ini |-> OrgName("Desktop", ".ini"), env |-> OrgName(".env", ""),
     ln |-> OrgName("ln", ".PNG")]

EmptyTree == [q \in {} |-> OrgEntry("dir", 0)]

\* The trees the organizer is run on.  In every tree: the root, the plan, the
\* organizer's own folder, desktop.ini, a dotfile and a symbolic link.  Then
\* some files and a project folder at the root; 00-Inbox absent, empty, or
\* holding x.PNG as a file, a live link or a dangling link, or webapi as a
\* dangling link; 05-Media/Images absent or holding x.PNG.
OrgInitialTrees ==
    LET fixture ==
            (Root :> OrgEntry("dir", 1)) @@ (<<OrgNames.plan>> :> OrgEntry("file", 2))
            @@ (<<OrgNames.self>> :> OrgEntry("dir", 3))
            @@ (<<OrgNames.desktop_ini>> :> OrgEntry("file", 4))
            @@ (<<OrgNames.env>> :> OrgEntry("file", 5))
            @@ (<<OrgNames.ln>> :> OrgEntry("link", 6))
        x == (<<OrgNames.x>> :> OrgEntry("file", 10))
        x1 == (<<OrgNames.x1>> :> OrgEntry("file", 11))
        book == (<<OrgNames.book>> :> OrgEntry("file", 12))
        course == (<<OrgNames.course>> :> OrgEntry("file", 13))
        webapi == (<<OrgNames.webapi>> :> OrgEntry("dir", 14))
                  @@ (<<OrgNames.webapi, OrgNames.main>> :> OrgEntry("file", 15))
        atRoot == {EmptyTree, x, x @@ x1, webapi, x @@ book, course @@ webapi}
        dir == (PurposePaths.inbox :> OrgEntry("dir", 20))
        inInbox ==
            {EmptyTree, dir,
             dir @@ (Append(PurposePaths.inbox, OrgNames.x) :> OrgEntry("file", 21)),
             dir @@ (Append(PurposePaths.inbox, OrgNames.x) :> OrgEntry("link", 22)),
             dir @@ (Append(PurposePaths.inbox, OrgNames.x) :> OrgEntry("dangling", 23)),
             dir @@ (Append(PurposePaths.inbox, OrgNames.webapi) :> OrgEntry("dangling", 24))}
        inImages ==
            {EmptyTree,
             (PurposePaths.media :> OrgEntry("dir", 30))
             @@ (Sub(PurposePaths.media, "Images") :> OrgEntry("dir", 31))
             @@ (Append(Sub(PurposePaths.media, "Images"), OrgNames.x) :> OrgEntry("file", 32))}
    IN  {fixture @@ r @@ i @@ m : r \in atRoot, i \in inInbox, m \in inImages}

NoCall == [step |-> 0, dry_run |-> FALSE]

OrgInit ==
    /\ orgFs \in OrgInitialTrees
    /\ orgInit = orgFs
    /\ orgCall = NoCall
    /\ OthersIdle("org")

\* main with --step 1: DownloadsOrganizer(root, dry_run, include_hidden).run_step(1)
Step1 ==
    \E dry_run \in BOOLEAN, include_hidden \in BOOLEAN :
        \E st \in run_step(1, orgFs, dry_run, include_hidden) :
            /\ orgFs' = st.fs
            /\ orgCall' = [step |-> 1, dry_run |-> dry_run]
            /\ UNCHANGED orgInit
            /\ OrgFrame

\* main with --step 2
Step2 ==
    \E dry_run \in BOOLEAN, include_hidden \in BOOLEAN :
        \E st \in run_step(2, orgFs, dry_run, include_hidden) :
            /\ orgFs' = st.fs
            /\ orgCall' = [step |-> 2, dry_run |-> dry_run]
            /\ UNCHANGED orgInit
            /\ OrgFrame

\* main with --step 3
Step3 ==
    \E dry_run \in BOOLEAN, include_hidden \in BOOLEAN :
        \E st \in run_step(3, orgFs, dry_run, include_hidden) :
            /\ orgFs' = st.fs
            /\ orgCall' = [step |-> 3, dry_run |-> dry_run]
            /\ UNCHANGED orgInit
            /\ OrgFrame

\* main with --step 4
Step4 ==
    \E dry_run \in BOOLEAN, include_hidden \in BOOLEAN :
        \E st \in run_step(4, orgFs, dry_run, include_hidden) :
            /\ orgFs' = st.fs
            /\ orgCall' = [step |-> 4, dry_run |-> dry_run]
            /\ UNCHANGED orgInit
            /\ OrgFrame

\* main with --step 5
Step5 ==
    \E dry_run \in BOOLEAN, include_hidden \in BOOLEAN :
        \E st \in run_step(5, orgFs, dry_run, include_hidden) :
            /\ orgFs' = st.fs
            /\ orgCall' = [step |-> 5, dry_run |-> dry_run]
            /\ UNCHANGED orgInit
            /\ OrgFrame

\* main with --step all: run_all(); recorded as step 6
RunAll ==
    \E dry_run \in BOOLEAN, include_hidden \in BOOLEAN :
        \E st \in run_all(orgFs, dry_run, include_hidden) :
            /\ orgFs' = st.fs
            /\ orgCall' = [step |-> 6, dry_run |-> dry_run]
            /\ UNCHANGED orgInit
            /\ OrgFrame

OrgNext == Step1 \/ Step2 \/ Step3 \/ Step4 \/ Step5 \/ RunAll

SpecOrg == OrgInit /\ [][OrgNext]_vars

\* C3: a move never overwrites or removes an existing entry: every entry of
\* the tree the organizer started from is still in the tree, at its old path
\* or at the path it was moved or renamed to.
C3_NeverOverwrites ==
    \A p \in DOMAIN orgInit : \E q \in DOMAIN orgFs : orgFs[q] = orgInit[p]

\* C4: with --dry-run, a run of a step (or of all steps) leaves the tree
\* under the root as it was before the run.
C4_DryRunChangesNothing == [][orgCall'.dry_run => orgFs' = orgFs]_vars

C4_Witness ==
    /\ orgCall.dry_run
    /\ orgCall.step = 2
    /\ \E item \in iterdir(orgFs, Root) : LastName(item) \in {OrgNames.x, OrgNames.book, OrgNames.webapi}

\* C8: the root-level entries named downloads_organizer or 00-plan.md, and
\* the purpose folders, are still at their root-level paths after any
\* sequence of steps.
C8_ProtectedStay ==
    \A n \in _protected_names \cup PurposeNames :
        <<n>> \in DOMAIN orgInit => (<<n>> \in DOMAIN orgFs /\ orgFs[<<n>>] = orgInit[<<n>>])

C8_Witness ==
    /\ orgCall.step = 2 /\ ~orgCall.dry_run
    /\ {<<OrgNames.plan>>, <<OrgNames.self>>, PurposePaths.inbox, PurposePaths.media} \subseteq DOMAIN orgInit
    /\ \E p \in DOMAIN orgInit : Len(p) = 1 /\ p \notin DOMAIN orgFs

\* C9: an entry that is a symbolic link, at the root level or directly inside
\* 00-Inbox, is at the same path after any sequence of steps.
C9_SymlinksStay ==
    \A p \in DOMAIN orgInit :
        (orgInit[p].kind \in {"link", "dangling"} /\ (Len(p) = 1 \/ (Len(p) = 2 /\ Parent(p) = PurposePaths.inbox)))
            => (p \in DOMAIN orgFs /\ orgFs[p] = orgInit[p])

(***************************************************************************)
(* 05-audio: tanakh_splitter, the choice of the verse boundaries           *)
(*                                                                         *)
(* Times are whole ticks of 0.05 s, so the 0.10 s and 0.05 s of the code   *)
(* are 2 ticks and 1 tick.  A Silence is [start, end, duration]; its mid   *)
(* (start + end) / 2 is kept doubled.  For verse_count V a cost is kept    *)
(* multiplied by 40 V, which makes every cost of the code a whole number:  *)
(* 40 V (|mid - (i + 1) T / V| - 0.15 duration)                            *)
(*    = |20 V (start + end) - 40 (i + 1) T| - 6 V duration.                *)
(* A minimum gap is the fraction num / den of a tick.                      *)
(***************************************************************************)
\* Bound: the verses of a chapter.
MaxVerses == 4

\* Bound: the thresholds of noise_db_candidates that are tried.
MaxNoiseLevels == 2

\* INF = 1e18: above every cost the silences used here can add up to.
INF == 1000000000

\* --min-boundary-silence, default 0.10 s, in ticks.
MinBoundarySilence == 2

\* --ignore-edge-silence, default 0.20 s, in ticks.
IgnoreEdgeSilence == 4

\* Silence.mid, doubled
Mid2(s) == s.start + s.end

\* _boundary_cost(expected[i], cand), times 40 V; i counts from 0 as in the code
_boundary_cost(i, cand, total_duration, verse_count) ==
    Abs(20 * verse_count * Mid2(cand) - 40 * (i + 1) * total_duration)
        - 6 * verse_count * cand.duration

\* sorted(candidates, key=lambda s: s.mid): a stable sort
RECURSIVE SortedByMid(_)
SortedByMid(cands) ==
    IF cands = <<>> THEN <<>>
    ELSE LET rest == SortedByMid(SubSeq(cands, 1, Len(cands) - 1))
             last == cands[Len(cands)]
             at == Cardinality({i \in DOMAIN rest : Mid2(rest[i]) <= Mid2(last)})
         IN  SubSeq(rest, 1, at) \o <<last>> \o SubSeq(rest, at + 1, Len(rest))

\* times[k] <= times[j] - min_gap_s
FarEnough(tk, tj, gap) == gap.den * tk <= gap.den * tj - 2 * gap.num

\* The loop with a fault: the last silence that is far enough is taken as
\* the predecessor, whatever it costs.
RECURSIVE DpAdvanceLatest(_, _, _, _, _)
DpAdvanceLatest(cands, dp_prev, gap, j, s) ==
    IF s.k < j /\ FarEnough(Mid2(cands[s.k]), Mid2(cands[j]), gap)
    THEN DpAdvanceLatest(cands, dp_prev, gap, j,
                         IF dp_prev[s.k] < INF
                         THEN [k |-> s.k + 1, best_cost |-> dp_prev[s.k], best_idx |-> s.k]
                         ELSE [s EXCEPT !.k = s.k + 1])
    ELSE s

\* "while k < j and times[k] <= times[j] - min_gap_s": the loop state
\* [k, best_cost, best_idx] after the loop; indexes count from 1, and
\* best_idx 0 is the -1 of the code.
RECURSIVE DpAdvance(_, _, _, _, _)
DpAdvance(cands, dp_prev, gap, j, s) ==
    IF s.k < j /\ FarEnough(Mid2(cands[s.k]), Mid2(cands[j]), gap)
    THEN DpAdvance(cands, dp_prev, gap, j,
                   IF dp_prev[s.k] < s.best_cost
                   THEN [k |-> s.k + 1, best_cost |-> dp_prev[s.k], best_idx |-> s.k]
                   ELSE [s EXCEPT !.k = s.k + 1])
    ELSE s

\* "for j in range(m)" of row i: the row [dp_curr, back[i]] built so far
RECURSIVE DpRow(_, _, _, _, _, _, _, _)
DpRow(cands, dp_prev, gap, i, j, s, row, tv) ==
    IF j > Len(cands) THEN row
    ELSE LET s2 == DpAdvance(cands, dp_prev, gap, j, s)
             row2 == IF s2.best_idx = 0 THEN row
                     ELSE [dp |-> [row.dp EXCEPT ![j] =
                                      s2.best_cost + _boundary_cost(i, cands[j], tv.t, tv.v)],
                           back |-> [row.back EXCEPT ![j] = s2.best_idx]]
         IN  DpRow(cands, dp_prev, gap, i, j + 1, s2, row2, tv)

\* "for i in range(1, n_boundaries)": the last dp row and all back rows
RECURSIVE DpRows(_, _, _, _, _, _)
DpRows(cands, gap, i, n_boundaries, tab, tv) ==
    IF i >= n_boundaries THEN tab
    ELSE LET m == Len(cands)
             row == DpRow(cands, tab.dp, gap, i, 1,
                          [k |-> 1, best_cost |-> INF, best_idx |-> 0],
                          [dp |-> [j \in 1..m |-> INF], back |-> [j \in 1..m |-> 0]], tv)
         IN  DpRows(cands, gap, i + 1, n_boundaries,
                    [dp |-> row.dp, back |-> Append(tab.back, row.back)], tv)

\* The backtracking loop: idxs, last boundary first; <<0>> in front when
\* "DP backtracking failed" is raised.
RECURSIVE DpBacktrack(_, _, _)
DpBacktrack(back, i, idxs) ==
    IF i < 2 THEN idxs
    ELSE LET j == back[i][idxs[Len(idxs)]]
         IN  IF j = 0 THEN <<0>> ELSE DpBacktrack(back, i - 1, Append(idxs, j))

DpRaised == [raised |-> TRUE, chosen |-> <<>>]

DpReturned(chosen) == [raised |-> FALSE, chosen |-> chosen]

\* All the candidates in the order of their mids, whatever verse_count is.
ChooseAllCandidates(candidates, total_duration, verse_count, gap) ==
    DpReturned(SortedByMid(candidates))

\* choose_boundaries_dp(candidates, total_duration, verse_count, min_gap_s)
choose_boundaries_dp(candidates, total_duration, verse_count, gap) ==
    LET n_boundaries == verse_count - 1
        cands == SortedByMid(candidates)
        m == Len(cands)
        tv == [t |-> total_duration, v |-> verse_count]
        first == [dp |-> [j \in 1..m |-> _boundary_cost(0, cands[j], total_duration, verse_count)],
                  back |-> << [j \in 1..m |-> 0] >>]
        tab == DpRows(cands, gap, 1, n_boundaries, first, tv)
        j_end == CHOOSE j \in 1..m :
                    /\ \A k \in 1..m : tab.dp[j] <= tab.dp[k]
                    /\ \A k \in 1..(j - 1) : tab.dp[k] > tab.dp[j]
        idxs == DpBacktrack(tab.back, n_boundaries, <<j_end>>)
    IN  IF n_boundaries <= 0 THEN DpReturned(<<>>)
        ELSE IF Len(candidates) < n_boundaries THEN DpRaised
        ELSE IF 2 * tab.dp[j_end] >= INF THEN DpRaised
        ELSE IF idxs[1] = 0 THEN DpRaised
        ELSE DpReturned([x \in 1..n_boundaries |-> cands[idxs[n_boundaries + 1 - x]]])

\* The candidates of one threshold: the detected silences without the ones
\* at the edges and without the tiny ones.
DpCandidates(silences, total_duration) ==
    SelectSeq(silences, LAMBDA s : /\ s.end > IgnoreEdgeSilence
                                   /\ s.start < total_duration - IgnoreEdgeSilence
                                   /\ s.duration >= MinBoundarySilence)

RECURSIVE SumDurations(_)
SumDurations(cands) ==
    IF cands = <<>> THEN 0 ELSE Head(cands).duration + SumDurations(Tail(cands))

\* score = penalty - avg_dur, as the fraction num / den
DpScore(candidates, target) ==
    LET count == Len(candidates)
        penalty == IF count < target THEN (target - count) * 1000 ELSE (count - target) * 5
    IN  [num |-> penalty * count - SumDurations(candidates), den |-> count]

\* "for noise_db in noise_db_candidates": best, <<>> with found FALSE for None
RECURSIVE DpBest(_, _, _, _, _)
DpBest(detected, level, total_duration, target, best) ==
    IF level > Len(detected) THEN best
    ELSE LET candidates == DpCandidates(detected[level], total_duration)
             score == DpScore(candidates, target)
             better == ~best.found \/ score.num * best.score.den < best.score.num * score.den
             next == IF better
                     THEN [found |-> TRUE, candidates |-> candidates, score |-> score, level |-> level]
                     ELSE best
         IN  IF candidates = <<>> THEN DpBest(detected, level + 1, total_duration, target, best)
             ELSE IF Len(candidates) = target THEN next
             ELSE DpBest(detected, level + 1, total_duration, target, next)

\* min_gap_trials, in ticks
min_gap_trials(total_duration, verse_count) ==
    << [num |-> Max2(10 * verse_count, total_duration), den |-> 5 * verse_count],
       [num |-> Max2(10 * verse_count, total_duration), den |-> 10 * verse_count],
       [num |-> 0, den |-> 1] >>

\* "for min_gap in min_gap_trials": the first trial that returns target silences
RECURSIVE DpTrials(_, _, _, _, _)
DpTrials(best, total_duration, verse_count, target, trial) ==
    IF trial > Len(min_gap_trials(total_duration, verse_count)) THEN DpRaised
    ELSE LET r == choose_boundaries_dp(best, total_duration, verse_count,
                                       min_gap_trials(total_duration, verse_count)[trial])
         IN  IF r.raised \/ Len(r.chosen) /= target
             THEN DpTrials(best, total_duration, verse_count, target, trial + 1)
             ELSE r

\* select_verse_boundary_silences: detected[level] is what detect_silences
\* returns for the level-th threshold
select_verse_boundary_silences(detected, total_duration, verse_count) ==
    LET target == Max2(0, verse_count - 1)
        best == DpBest(detected, 1, total_duration, target,
                       [found |-> FALSE, candidates |-> <<>>, score |-> [num |-> 0, den |-> 1], level |-> 0])
    IN  IF target = 0 THEN DpReturned(<<>>)
        ELSE IF ~best.found THEN DpRaised
        ELSE DpTrials(best.candidates, total_duration, verse_count, target, 1)

\* What silencedetect reports for a threshold: silences that follow one
\* another; the first lies at the edge, [15, 16] is tiny.
DpDetections ==
    LET e == [start |-> 0, end |-> 3, duration |-> 3]
        a == [start |-> 4, end |-> 7, duration |-> 3]
        b == [start |-> 10, end |-> 12, duration |-> 2]
        c == [start |-> 12, end |-> 14, duration |-> 2]
        t == [start |-> 15, end |-> 16, duration |-> 1]
        d == [start |-> 24, end |-> 30, duration |-> 6]
    IN  {<<>>, <<b, c>>, <<a, d>>, <<a, b, c>>, <<a, b, c, d>>, <<e, a, b, c, t, d>>}

\* total_duration: 2 s and 4 s
DpDurations == {40, 80}

DpInit ==
    /\ dpIn \in [total_duration : DpDurations, verse_count : 1..MaxVerses,
                 detected : UNION {[1..n -> DpDetections] : n \in 1..MaxNoiseLevels}]
    /\ dpOut = [fn |-> "none", raised |-> FALSE, chosen |-> <<>>, candidates |-> <<>>,
                gap |-> [num |-> 0, den |-> 1]]
    /\ OthersIdle("dp")

\* main: select_verse_boundary_silences(audio_path, total_duration, verse_count, ...)
SelectVerseBoundarySilences ==
    /\ dpOut.fn = "none"
    /\ LET r == select_verse_boundary_silences(dpIn.detected, dpIn.total_duration, dpIn.verse_count)
       IN  dpOut' = [fn |-> "select", raised |-> r.raised, chosen |-> r.chosen,
                     candidates |-> dpIn.detected, gap |-> [num |-> 0, den |-> 1]]
    /\ UNCHANGED dpIn
    /\ DpFrame

\* choose_boundaries_dp called on the silences of one threshold with one of the gaps
ChooseBoundariesDp ==
    /\ dpOut.fn = "none"
    /\ \E level \in DOMAIN dpIn.detected, trial \in 1..3 :
        LET r == choose_boundaries_dp(dpIn.detected[level], dpIn.total_duration, dpIn.verse_count,
                                      min_gap_trials(dpIn.total_duration, dpIn.verse_count)[trial])
        IN  dpOut' = [fn |-> "dp", raised |-> r.raised, chosen |-> r.chosen,
                      candidates |-> <<dpIn.detected[level]>>,
                      gap |-> min_gap_trials(dpIn.total_duration, dpIn.verse_count)[trial]]
    /\ UNCHANGED dpIn
    /\ DpFrame

DpNext == SelectVerseBoundarySilences \/ ChooseBoundariesDp

SpecDP == DpInit /\ [][DpNext]_vars

\* chosen takes its silences from one list, each position of the list at most once
TakenFrom(chosen, list) ==
    \E pos \in [DOMAIN chosen -> DOMAIN list] :
        /\ \A x \in DOMAIN chosen : list[pos[x]] = chosen[x]
        /\ \A x, y \in DOMAIN chosen : x /= y => pos[x] /= pos[y]

\* C6: choose_boundaries_dp and select_verse_boundary_silences return exactly
\* verse_count - 1 silences, each one a detected candidate and no candidate
\* twice, or they raise.
C6_ExactlyVerseCountMinusOne ==
    (dpOut.fn /= "none" /\ ~dpOut.raised) =>
        /\ Len(dpOut.chosen) = dpIn.verse_count - 1
        /\ \E level \in DOMAIN dpOut.candidates : TakenFrom(dpOut.chosen, dpOut.candidates[level])

C6_Witness ==
    /\ dpOut.fn = "dp" /\ ~dpOut.raised
    /\ dpIn.verse_count = 3
    /\ Len(dpOut.candidates[1]) > 2
    /\ Len(dpOut.chosen) = 2

\* The chains of n candidates of the sorted list: positions that go up, each
\* silence at least the gap after the one before.
DpChains(cands, n, gap) ==
    {f \in [1..n -> DOMAIN cands] :
        \A x \in 1..(n - 1) :
            /\ f[x] < f[x + 1]
            /\ FarEnough(Mid2(cands[f[x]]), Mid2(cands[f[x + 1]]), gap)}

\* The total cost of a sequence of boundaries, times 40 V.
RECURSIVE DpTotalCost(_, _, _)
DpTotalCost(chosen, total_duration, verse_count) ==
    IF chosen = <<>> THEN 0
    ELSE DpTotalCost(SubSeq(chosen, 1, Len(chosen) - 1), total_duration, verse_count)
            + _boundary_cost(Len(chosen) - 1, chosen[Len(chosen)], total_duration, verse_count)

\* C15: choose_boundaries_dp raises exactly when no chain of verse_count - 1
\* candidates keeps the order and the minimum gap; otherwise it returns such a
\* chain, and no chain has a smaller total cost.
C15_OptimalAndComplete ==
    (dpOut.fn = "dp" /\ dpIn.verse_count > 1) =>
        LET cands == SortedByMid(dpOut.candidates[1])
            n == dpIn.verse_count - 1
            chains == DpChains(cands, n, dpOut.gap)
            cost(f) == DpTotalCost([x \in 1..n |-> cands[f[x]]],
                                   dpIn.total_duration, dpIn.verse_count)
        IN  /\ dpOut.raised <=> chains = {}
            /\ ~dpOut.raised =>
                    /\ \E f \in chains : dpOut.chosen = [x \in 1..n |-> cands[f[x]]]
                    /\ \A f \in chains :
                            DpTotalCost(dpOut.chosen, dpIn.total_duration, dpIn.verse_count)
                                <= cost(f)

\* Three boundaries chosen out of more candidates with a gap that rules chains out.
C15_Witness ==
    /\ dpOut.fn = "dp" /\ ~dpOut.raised
    /\ dpIn.verse_count = 3
    /\ dpOut.gap.num > 0
    /\ LET cands == SortedByMid(dpOut.candidates[1])
       IN  /\ Cardinality(DpChains(cands, 2, dpOut.gap)) > 1
           /\ Cardinality(DpChains(cands, 2, dpOut.gap))
                < Cardinality(DpChains(cands, 2, [num |-> 0, den |-> 1]))

\* choose_boundaries_dp raises although the list holds enough candidates.
C15_WitnessRaised ==
    /\ dpOut.fn = "dp" /\ dpOut.raised
    /\ Len(dpOut.candidates[1]) >= dpIn.verse_count - 1

(***************************************************************************)
(* sqlserver_security_suite_xlsx: loading the Roles and Permissions sheets *)
(* and the DENY-over-GRANT heuristic of build_full_script                  *)
(***************************************************************************)
\* Bound: rows of the Permissions sheet.
MaxPermRows == 2

\* Python's None in a loaded row.
None == "<None>"

\* str.upper() on the cell texts used here.
Upper(s) ==
    CASE s = "deny" -> "DENY"
      [] s = "execute" -> "EXECUTE"
      [] OTHER -> s

DB_ALLOWED_PERMS ==
    [DATABASE |-> {"CONNECT", "SELECT", "INSERT", "UPDATE", "DELETE", "ALTER ANY SCHEMA",
                   "ALTER ANY USER", "CONTROL", "CONTROL DATABASE", "CREATE TABLE", "CREATE VIEW",
                   "CREATE PROCEDURE", "CREATE FUNCTION", "VIEW DATABASE STATE", "VIEW DEFINITION"},
     SCHEMA |-> {"SELECT", "INSERT", "UPDATE", "DELETE", "EXECUTE", "CONTROL", "ALTER",
                 "REFERENCES", "VIEW DEFINITION"},
     OBJECT |-> {"SELECT", "INSERT", "UPDATE", "DELETE", "EXECUTE", "REFERENCES", "CONTROL",
                 "VIEW DEFINITION"}]

\* load_roles_df(df), df being the RoleName column: empty cells are skipped and
\* of the names that agree in lower case the first is kept.
load_roles_df(df) ==
    {df[k] : k \in {i \in DOMAIN df :
                        /\ df[i] /= ""
                        /\ \A j \in 1..(i - 1) : df[j] = "" \/ Lower(df[j]) /= Lower(df[i])}}

\* load_db_permissions_df(df, valid_roles) from row i on; the sheet has no
\* WithGrantOption column, so wgo is False in every row.
RECURSIVE LoadPermRows(_, _, _, _, _)
LoadPermRows(df, valid_roles, i, rows, seen) ==
    IF i > Len(df) THEN rows
    ELSE
        LET role == df[i].RoleName
            state == Upper(IF df[i].State = "" THEN "GRANT" ELSE df[i].State)
            scope == Upper(df[i].Scope)
            perm == Upper(df[i].Permission)
            schema == df[i].SchemaName
            obj == df[i].ObjectName
            sig == <<Lower(role), state, scope, Lower(schema), Lower(obj), perm, FALSE>>
            skipped ==
                \/ role = "" \/ scope = "" \/ perm = ""
                \/ role \notin valid_roles
                \/ state \notin {"GRANT", "DENY"}
                \/ scope \notin {"DATABASE", "SCHEMA", "OBJECT"}
                \/ (scope \in {"SCHEMA", "OBJECT"} /\ schema = "")
                \/ (scope = "OBJECT" /\ obj = "")
                \/ perm \notin DB_ALLOWED_PERMS[scope]
                \/ sig \in seen
        IN  IF skipped THEN LoadPermRows(df, valid_roles, i + 1, rows, seen)
            ELSE LoadPermRows(df, valid_roles, i + 1,
                     Append(rows, [RoleName |-> role, State |-> state, Scope |-> scope,
                                   SchemaName |-> IF schema = "" THEN None ELSE schema,
                                   ObjectName |-> IF obj = "" THEN None ELSE obj,
                                   Permission |-> perm, WithGrantOption |-> FALSE]),
                     seen \cup {sig})

load_db_permissions_df(df, valid_roles) == LoadPermRows(df, valid_roles, 1, <<>>, {})

\* (v or "")
OrEmpty(v) == IF v = None THEN "" ELSE v

\* The notes in the order of the rows: kind[i] is the kind of note of row i of
\* db_perms, "none" for a row without a note.
NotesInOrder(db_perms, kind) ==
    LET reported == {i \in DOMAIN db_perms : kind[i] /= "none"}
    IN  [k \in 1..Cardinality(reported) |->
            LET i == CHOOSE r \in reported : Cardinality({j \in reported : j < r}) = k - 1
            IN  [kind |-> kind[i], row |-> i, grant |-> db_perms[i]]]

\* detect_db_deny_conflicts with the schema and object names compared as written.
DetectExactNames(db_perms) ==
    LET denies == {db_perms[i] : i \in {k \in DOMAIN db_perms : db_perms[k].State = "DENY"}}
        deny_db == {<<Lower(d.RoleName), d.Permission>> : d \in {x \in denies : x.Scope = "DATABASE"}}
        deny_schema == {<<Lower(d.RoleName), d.Permission, OrEmpty(d.SchemaName)>> :
                            d \in {x \in denies : x.Scope = "SCHEMA"}}
        deny_object == {<<Lower(d.RoleName), d.Permission, OrEmpty(d.SchemaName), OrEmpty(d.ObjectName)>> :
                            d \in {x \in denies : x.Scope = "OBJECT"}}
        Kind(g) ==
            IF <<Lower(g.RoleName), g.Permission>> \in deny_db THEN "DB"
            ELSE IF g.Scope \in {"SCHEMA", "OBJECT"}
                    /\ <<Lower(g.RoleName), g.Permission, OrEmpty(g.SchemaName)>> \in deny_schema
                 THEN "SCHEMA"
            ELSE IF g.Scope = "OBJECT"
                    /\ <<Lower(g.RoleName), g.Permission, OrEmpty(g.SchemaName), OrEmpty(g.ObjectName)>>
                           \in deny_object
                 THEN "OBJECT"
            ELSE "none"
    IN  NotesInOrder(db_perms, [i \in DOMAIN db_perms |->
                                   IF db_perms[i].State = "GRANT" THEN Kind(db_perms[i]) ELSE "none"])

\* detect_db_deny_conflicts(db_perms).  A note is the record of what its text
\* names (the kind of DENY and the GRANT row's fields); row is the place of the
\* GRANT row in db_perms.
detect_db_deny_conflicts(db_perms) ==
    LET denies == {db_perms[i] : i \in {k \in DOMAIN db_perms : db_perms[k].State = "DENY"}}
        deny_db == {<<Lower(d.RoleName), d.Permission>> : d \in {x \in denies : x.Scope = "DATABASE"}}
        deny_schema == {<<Lower(d.RoleName), d.Permission, Lower(OrEmpty(d.SchemaName))>> :
                            d \in {x \in denies : x.Scope = "SCHEMA"}}
        deny_object == {<<Lower(d.RoleName), d.Permission, Lower(OrEmpty(d.SchemaName)),
                          Lower(OrEmpty(d.ObjectName))>> : d \in {x \in denies : x.Scope = "OBJECT"}}
        Kind(g) ==
            LET r == Lower(g.RoleName)
                p == g.Permission
                s == g.Scope
                sch == Lower(OrEmpty(g.SchemaName))
                obj == Lower(OrEmpty(g.ObjectName))
            IN  IF <<r, p>> \in deny_db THEN "DB"
                ELSE IF s \in {"SCHEMA", "OBJECT"} /\ <<r, p, sch>> \in deny_schema THEN "SCHEMA"
                ELSE IF s = "OBJECT" /\ <<r, p, sch, obj>> \in deny_object THEN "OBJECT"
                ELSE "none"
    IN  NotesInOrder(db_perms, [i \in DOMAIN db_perms |->
                                   IF db_perms[i].State = "GRANT" THEN Kind(db_perms[i]) ELSE "none"])

\* The Roles sheets and the rows of the Permissions sheets of the workbooks.
RoleSheets == {<<"Reader", "Writer">>, <<"reader", "", "Reader", "Writer">>}

PermSheetRows ==
    LET Row(role, state, perm, shape) ==
            [RoleName |-> role, State |-> state, Scope |-> shape[1], SchemaName |-> shape[2],
             ObjectName |-> shape[3], Permission |-> perm]
        selectShapes == {<<"DATABASE", "", "">>, <<"DATABASE", "dbo", "">>, <<"SCHEMA", "dbo", "">>,
                         <<"SCHEMA", "DBO", "">>, <<"SCHEMA", "", "">>, <<"OBJECT", "dbo", "t">>,
                         <<"OBJECT", "DBO", "t">>, <<"OBJECT", "dbo", "T">>}
        executeShapes == {<<"DATABASE", "", "">>, <<"SCHEMA", "dbo", "">>, <<"OBJECT", "dbo", "t">>}
    IN  {Row(role, state, "SELECT", shape) :
            role \in {"Reader", "Writer"}, state \in {"", "deny"}, shape \in selectShapes}
        \cup {Row(role, state, "execute", shape) :
            role \in {"Reader", "Writer"}, state \in {"", "deny"}, shape \in executeShapes}

DnInit ==
    /\ dnIn \in [roles : RoleSheets,
                 perms : UNION {[1..n -> PermSheetRows] : n \in 0..MaxPermRows}]
    /\ dnOut = [stage |-> "read", roles |-> {}, db_perms |-> <<>>, notes |-> <<>>]
    /\ OthersIdle("deny")

\* main: Phase "Load & validate sheets"
LoadSheets ==
    /\ dnOut.stage = "read"
    /\ LET roles == load_roles_df(dnIn.roles)
       IN  dnOut' = [dnOut EXCEPT !.stage = "loaded", !.roles = roles,
                                  !.db_perms = load_db_permissions_df(dnIn.perms, roles)]
    /\ UNCHANGED dnIn
    /\ DnFrame

\* build_full_script: deny_notes += detect_db_deny_conflicts(db_perms)
BuildFullScript ==
    /\ dnOut.stage = "loaded"
    /\ dnOut' = [dnOut EXCEPT !.stage = "built", !.notes = detect_db_deny_conflicts(dnOut.db_perms)]
    /\ UNCHANGED dnIn
    /\ DnFrame

DnNext == LoadSheets \/ BuildFullScript

SpecDeny == DnInit /\ [][DnNext]_vars

\* Two names are the same: as written, or without regard to case.
SameName(a, b, ignoreCase) == IF ignoreCase THEN Lower(a) = Lower(b) ELSE a = b

\* The DENY row d overrides the GRANT row g under conditions (a), (b), (c).
Overrides(d, g, ignoreCase) ==
    /\ d.State = "DENY" /\ g.State = "GRANT"
    /\ Lower(d.RoleName) = Lower(g.RoleName)
    /\ d.Permission = g.Permission
    /\ \/ d.Scope = "DATABASE"
       \/ /\ d.Scope = "SCHEMA" /\ g.Scope \in {"SCHEMA", "OBJECT"}
          /\ SameName(d.SchemaName, g.SchemaName, ignoreCase)
       \/ /\ d.Scope = "OBJECT" /\ g.Scope = "OBJECT"
          /\ SameName(d.SchemaName, g.SchemaName, ignoreCase)
          /\ SameName(d.ObjectName, g.ObjectName, ignoreCase)

ReportedExactlyWhenOverridden(ignoreCase) ==
    dnOut.stage = "built" =>
        /\ \A i \in DOMAIN dnOut.db_perms :
            (\E k \in DOMAIN dnOut.notes : dnOut.notes[k].row = i)
                <=> \E j \in DOMAIN dnOut.db_perms :
                        Overrides(dnOut.db_perms[j], dnOut.db_perms[i], ignoreCase)
        /\ \A k, l \in DOMAIN dnOut.notes : dnOut.notes[k].row = dnOut.notes[l].row => k = l
        /\ \A k \in DOMAIN dnOut.notes : dnOut.db_perms[dnOut.notes[k].row].State = "GRANT"

\* C7 as stated: a GRANT row is reported exactly when a DENY of the same role
\* (case-insensitively) and permission is at DATABASE scope, at SCHEMA scope on
\* the grant's schema (grant at SCHEMA or OBJECT scope) or at OBJECT scope on
\* the grant's schema and object (grant at OBJECT scope), the schema and object
\* being the same names; at most one note per GRANT row, none for DENY rows.
C7_AsStated == ReportedExactlyWhenOverridden(FALSE)

\* C7 amended: the same, with the schema and object names compared without
\* regard to case, like the role.
C7_NamesIgnoringCase == ReportedExactlyWhenOverridden(TRUE)

\* A GRANT on a schema is reported because of a DENY on the same schema written
\* in another case.
C7_Witness ==
    /\ dnOut.stage = "built"
    /\ \E k \in DOMAIN dnOut.notes :
        /\ dnOut.notes[k].kind = "SCHEMA"
        /\ \A j \in DOMAIN dnOut.db_perms :
            ~Overrides(dnOut.db_perms[j], dnOut.notes[k].grant, FALSE)

(***************************************************************************)
(* csv2xlsx: write_xlsx_streaming, full conversion (--sample 0)            *)
(***************************************************************************)
EXCEL_MAX_ROWS == 1048576

\* Bounds: rows of the CSV file (the header row included), and --chunk-rows.
MaxCsvRows == 4

MaxChunkRows == 3

\* start_new_workbook() with a fault: the new chunk's sheet starts with the
\* rows of the previous sheet.
StartWorkbookKeepingRows(st, chunk_rows) ==
    IF chunk_rows > 0
    THEN [st EXCEPT !.chunk_idx = @ + 1, !.sheet_idx = 1,
                    !.wb = IF st.wb = <<>> THEN << <<>> >> ELSE <<st.wb[Len(st.wb)]>>]
    ELSE [st EXCEPT !.wb = Append(st.wb, <<>>)]

\* start_new_workbook(): st is the state of the writer, wb the sheets of the
\* open workbook (ws is the last of them), each sheet the rows appended to it;
\* before the first workbook is created (wb is None) there are no sheets.
start_new_workbook(st, chunk_rows) ==
    IF chunk_rows > 0
    THEN [st EXCEPT !.chunk_idx = @ + 1, !.sheet_idx = 1, !.wb = << <<>> >>]
    ELSE [st EXCEPT !.wb = Append(st.wb, <<>>)]

\* ws.append(row); row_counter += 1
WsAppend(st, row) ==
    [st EXCEPT !.wb[Len(st.wb)] = Append(@, row), !.row_counter = @ + 1]

maybe_write_header(st, header) == IF header /= None THEN WsAppend(st, header) ELSE st

\* wb.save(path): chunk_path(chunk_idx) is named by chunk_idx, output_xlsx by 0.
WbSave(st, path) == [st EXCEPT !.saved = Append(@, [path |-> path, sheets |-> st.wb])]

\* The loop "for row in reader" of the full streaming conversion.
RECURSIVE StreamRows(_, _, _, _)
StreamRows(args, header, rows, st) ==
    IF rows = <<>> THEN st
    ELSE
        LET ready ==
                IF args.chunk_rows > 0
                THEN IF st.row_counter - (IF header /= None THEN 1 ELSE 0) >= args.chunk_rows
                     THEN maybe_write_header(
                              [start_new_workbook(WbSave(st, st.chunk_idx), args.chunk_rows)
                                   EXCEPT !.row_counter = 0], header)
                     ELSE st
                ELSE IF args.split_sheets /\ st.row_counter >= args.max_rows_per_sheet
                     THEN maybe_write_header(
                              [start_new_workbook([st EXCEPT !.sheet_idx = @ + 1], args.chunk_rows)
                                   EXCEPT !.row_counter = 0], header)
                     ELSE st
        IN  StreamRows(args, header, Tail(rows), WsAppend(ready, Head(rows)))

\* write_xlsx_streaming(input_csv, ...): csv is the rows of input_csv; the
\* result is whether it raised and the files saved, in the order of saving.
write_xlsx_streaming(csv, args) ==
    LET header == IF args.has_header /\ csv /= <<>> THEN Head(csv) ELSE None
        rows == IF args.has_header /\ csv /= <<>> THEN Tail(csv) ELSE csv
        raises ==
            \/ args.max_rows_per_sheet > EXCEL_MAX_ROWS
            \/ args.chunk_rows > 0 /\ args.split_sheets
            \/ args.has_header /\ csv = <<>>
            \/ /\ args.chunk_rows > 0
               /\ args.chunk_rows > EXCEL_MAX_ROWS - (IF header /= None THEN 1 ELSE 0)
        start == maybe_write_header(
                     start_new_workbook([wb |-> <<>>, chunk_idx |-> 0, sheet_idx |-> 1,
                                         row_counter |-> 0, saved |-> <<>>], args.chunk_rows),
                     header)
        done == StreamRows(args, header, rows, start)
    IN  IF raises THEN [raised |-> TRUE, saved |-> <<>>]
        ELSE [raised |-> FALSE,
              saved |-> WbSave(done, IF args.chunk_rows > 0 THEN done.chunk_idx ELSE 0).saved]

\* The command lines: the CSV file, --no-header, --chunk-rows, --split-sheets,
\* --max-rows-per-sheet.  "h" is a header row, "a" and "b" are data rows.
CsvInit ==
    /\ csvIn \in [csv : UNION {[1..n -> {"h", "a", "b"}] : n \in 0..MaxCsvRows},
                  args : [has_header : BOOLEAN,
                          chunk_rows : 0..MaxChunkRows \cup {EXCEL_MAX_ROWS},
                          split_sheets : BOOLEAN,
                          max_rows_per_sheet : {1, 2, 3, EXCEL_MAX_ROWS, EXCEL_MAX_ROWS + 1}]]
    /\ csvOut = [returned |-> FALSE, rc |-> 0, saved |-> <<>>]
    /\ OthersIdle("csv")

\* main(): returns 1 when write_xlsx_streaming raised and 0 otherwise.
CsvMain ==
    /\ ~csvOut.returned
    /\ LET r == write_xlsx_streaming(csvIn.csv, csvIn.args)
       IN  csvOut' = [returned |-> TRUE, rc |-> IF r.raised THEN 1 ELSE 0, saved |-> r.saved]
    /\ UNCHANGED csvIn
    /\ CsvFrame

SpecCsv == CsvInit /\ [][CsvMain]_vars

\* The data rows of the CSV file of the run.
CsvDataRows == IF csvIn.args.has_header THEN Tail(csvIn.csv) ELSE csvIn.csv

\* The data rows of a saved file that has one sheet.
ChunkDataRows(file) == IF csvIn.args.has_header THEN Tail(file.sheets[1]) ELSE file.sheets[1]

\* C10: in chunk mode the chunk files are numbered 1, 2, ...; every one holds
\* the header row (when the CSV has one) and then at most N data rows, every
\* one but the last exactly N, and the data rows of the files in index order
\* are the data rows of the CSV in their order.
C10_ChunksPartitionRows ==
    (csvOut.returned /\ csvOut.rc = 0 /\ csvIn.args.chunk_rows > 0) =>
        LET N == csvIn.args.chunk_rows
            files == csvOut.saved
            k == Len(files)
        IN  /\ k >= 1
            /\ \A i \in 1..k :
                /\ files[i].path = i
                /\ Len(files[i].sheets) = 1
                /\ csvIn.args.has_header =>
                       (files[i].sheets[1] /= <<>> /\ Head(files[i].sheets[1]) = Head(csvIn.csv))
                /\ Len(ChunkDataRows(files[i])) <= N
                /\ i < k => Len(ChunkDataRows(files[i])) = N
                /\ \A j \in 1..Len(ChunkDataRows(files[i])) :
                       /\ (i - 1) * N + j <= Len(CsvDataRows)
                       /\ ChunkDataRows(files[i])[j] = CsvDataRows[(i - 1) * N + j]
            /\ Len(CsvDataRows) = (k - 1) * N + Len(ChunkDataRows(files[k]))

C10_Witness ==
    /\ csvOut.returned /\ csvOut.rc = 0
    /\ csvIn.args.chunk_rows = 2 /\ csvIn.args.has_header
    /\ Len(csvIn.csv) = 4
    /\ Len(csvOut.saved) = 2
    /\ Len(csvOut.saved[2].sheets[1]) = 2

\* C11: with --split-sheets no sheet of the saved workbook holds more than
\* --max-rows-per-sheet rows, the header row of the sheet counted.
C11_SheetRowsWithinMax ==
    (csvOut.returned /\ csvOut.rc = 0 /\ csvIn.args.split_sheets) =>
        \A f \in DOMAIN csvOut.saved : \A sh \in DOMAIN csvOut.saved[f].sheets :
            Len(csvOut.saved[f].sheets[sh]) <= csvIn.args.max_rows_per_sheet

(***************************************************************************)
(* xlsx2tsql: the SQL type inferred for a column of the first worksheet    *)
(***************************************************************************)
MAX_VARCHAR == 255

\* Bound: data rows of the worksheet.
MaxSheetRows == 2

\* The cells of a worksheet read with dtype=object: an empty cell (NaN), an
\* int, a float (integral or not), a str (its characters), or another object,
\* such as a date (the characters of its str()).
XlCells ==
    {[t |-> "nan"], [t |-> "int"], [t |-> "float", integral |-> TRUE],
     [t |-> "float", integral |-> FALSE],
     [t |-> "str", s |-> <<49, 50>>],                   \* "12"
     [t |-> "str", s |-> <<49, 46, 53>>],               \* "1.5"
     [t |-> "str", s |-> <<32>>],                       \* " "
     [t |-> "str", s |-> <<120>>],                      \* "x"
     [t |-> "str", s |-> <<97, 98, 99>>],               \* "abc"
     [t |-> "str", s |-> <<32, 97, 98>>],               \* " ab"
     [t |-> "str", s |-> [i \in 1..300 |-> 120]],       \* "xxx...x", 300 characters
     [t |-> "obj", s |-> [i \in 1..19 |-> 48]]}         \* a datetime, str() of 19 characters

\* int(s) and float(s) succeed, for strings of digits, '.', letters and spaces;
\* s is already stripped.
IntParses(s) == s /= <<>> /\ \A i \in DOMAIN s : s[i] \in 48..57

FloatParses(s) ==
    /\ \E i \in DOMAIN s : s[i] \in 48..57
    /\ \A i \in DOMAIN s : s[i] \in 48..57 \/ s[i] = 46
    /\ Cardinality({i \in DOMAIN s : s[i] = 46}) <= 1

\* float(s).is_integer(): no digit other than 0 after the point.
FloatIsInteger(s) ==
    \A i \in DOMAIN s : (\E j \in 1..(i - 1) : s[j] = 46) => s[i] = 48

_is_int_like(val) ==
    CASE val.t = "nan" -> TRUE
      [] val.t = "int" -> TRUE
      [] val.t = "float" -> val.integral
      [] val.t = "str" ->
            LET s == Strip(val.s)
            IN  IF s = <<>> THEN TRUE
                ELSE IF \E i \in DOMAIN s : s[i] \in {46, 101, 69} THEN FALSE
                ELSE IntParses(s)
      [] OTHER -> FALSE

_is_float_like(val) ==
    CASE val.t = "nan" -> FALSE
      [] val.t = "int" -> FALSE
      [] val.t = "float" -> ~val.integral
      [] val.t = "str" ->
            LET s == Strip(val.s)
            IN  IF s = <<>> THEN FALSE
                ELSE FloatParses(s) /\ ~FloatIsInteger(s)
      [] OTHER -> FALSE

_is_text(val) ==
    CASE val.t = "nan" -> FALSE
      [] val.t = "str" -> Strip(val.s) /= <<>> /\ ~FloatParses(Strip(val.s))
      [] val.t \in {"int", "float"} -> FALSE
      [] OTHER -> TRUE

_max_text_len(series) ==
    LET measured == {i \in DOMAIN series :
                        series[i].t \in {"str", "obj"} /\ Strip(series[i].s) /= <<>>}
        max_len == IF measured = {} THEN 0
                   ELSE Len(series[CHOOSE i \in measured :
                                \A j \in measured : Len(series[j].s) <= Len(series[i].s)].s)
    IN  Min2(max_len, MAX_VARCHAR)

\* _infer_sql_type(series): the type and the length; length 0 stands for None.
_infer_sql_type(series) ==
    LET saw_float == \E i \in DOMAIN series : _is_float_like(series[i])
        all_int == \A i \in DOMAIN series : _is_int_like(series[i])
        saw_text == \E i \in DOMAIN series : _is_text(series[i])
    IN  IF saw_text /\ (saw_float \/ ~all_int) THEN [type |-> "NVARCHAR", length |-> MAX_VARCHAR]
        ELSE IF saw_text
             THEN IF _max_text_len(series) <= 0 THEN [type |-> "NVARCHAR", length |-> MAX_VARCHAR]
                  ELSE [type |-> "NVARCHAR", length |-> Max2(1, _max_text_len(series))]
        ELSE IF saw_float THEN [type |-> "FLOAT", length |-> 0]
        ELSE IF all_int
             THEN IF \A i \in DOMAIN series : series[i].t = "nan"
                  THEN [type |-> "NVARCHAR", length |-> MAX_VARCHAR]
                  ELSE [type |-> "INT", length |-> 0]
        ELSE [type |-> "NVARCHAR", length |-> MAX_VARCHAR]

\* The first worksheet has one column: its header and its cells.
XlInit ==
    /\ xlIn \in [header : {"name", "", "Unnamed: 0"},
                 series : UNION {[1..n -> XlCells] : n \in 0..MaxSheetRows}]
    /\ xlOut = [returned |-> FALSE, rc |-> 0, column |-> [type |-> "", length |-> 0]]
    /\ OthersIdle("xl")

\* main: convert() raises XlsxToTsqlError (return code 2) for a worksheet
\* without data rows and for an empty or unnamed header, and otherwise writes
\* the CREATE TABLE script with the inferred type of the column.
XlMain ==
    /\ ~xlOut.returned
    /\ xlOut' = IF xlIn.series = <<>> \/ xlIn.header \in {"", "Unnamed: 0"}
                THEN [xlOut EXCEPT !.returned = TRUE, !.rc = 2]
                ELSE [xlOut EXCEPT !.returned = TRUE, !.column = _infer_sql_type(xlIn.series)]
    /\ UNCHANGED xlIn
    /\ XlFrame

SpecXl == XlInit /\ [][XlMain]_vars

\* A cell holding text: a string that is not blank and is not a number.
IsTextCell(val) == val.t = "str" /\ Strip(val.s) /= <<>> /\ ~FloatParses(Strip(val.s))

\* A cell that is empty or a blank string.
IsBlankCell(val) == val.t = "nan" \/ (val.t = "str" /\ Strip(val.s) = <<>>)

\* C12: a column whose non-blank cells are all text, of maximum length L >= 1,
\* is declared NVARCHAR(min(L, 255)).
C12_TextColumnLength ==
    (/\ xlOut.returned /\ xlOut.rc = 0
     /\ \E i \in DOMAIN xlIn.series : IsTextCell(xlIn.series[i])
     /\ \A i \in DOMAIN xlIn.series : IsBlankCell(xlIn.series[i]) \/ IsTextCell(xlIn.series[i]))
    => \E i \in DOMAIN xlIn.series :
        /\ IsTextCell(xlIn.series[i])
        /\ \A j \in DOMAIN xlIn.series :
               IsTextCell(xlIn.series[j]) => Len(xlIn.series[j].s) <= Len(xlIn.series[i].s)
        /\ xlOut.column = [type |-> "NVARCHAR", length |-> Min2(Len(xlIn.series[i].s), MAX_VARCHAR)]
(***************************************************************************)
(* sqlserver_security_suite_xlsx: the managed logins of build_full_script  *)
(* and the server-level cleanup of script_server_clean                     *)
(*                                                                         *)
(* A text is the sequence of its code points.  Of the script only the list *)
(* between the brackets of "WHERE m.name IN (...)" (phase S1) and of       *)
(* "WHERE grantee.name IN (...)" (phase S1b) is kept.                      *)
(***************************************************************************)
\* Bound: rows of each sheet that names logins.
MaxLoginRows == 1

\* s.replace("'", "''")
RECURSIVE DoubledQuotes(_)
DoubledQuotes(s) ==
    IF s = <<>> THEN <<>>
    ELSE (IF Head(s) = 39 THEN <<39, 39>> ELSE <<Head(s)>>) \o DoubledQuotes(Tail(s))

\* nl(s): "N'" + s.replace("'", "''") + "'"
nl(s) == <<78, 39>> \o DoubledQuotes(s) \o <<39>>

\* str.lower() on the letters A to Z
LowerText(s) == [i \in DOMAIN s |-> IF s[i] \in 65..90 THEN s[i] + 32 ELSE s[i]]

\* s < t on str
RECURSIVE TextLess(_, _)
TextLess(s, t) ==
    IF t = <<>> THEN FALSE
    ELSE IF s = <<>> THEN TRUE
    ELSE IF Head(s) /= Head(t) THEN Head(s) < Head(t)
    ELSE TextLess(Tail(s), Tail(t))

\* sorted(names, key=lambda s: s.lower())
SortedByLower(names) ==
    CHOOSE q \in [1..Cardinality(names) -> names] :
        /\ \A n \in names : \E i \in DOMAIN q : q[i] = n
        /\ \A i, j \in DOMAIN q : i < j => ~TextLess(LowerText(q[j]), LowerText(q[i]))

\* ", ".join(parts)
RECURSIVE JoinComma(_)
JoinComma(parts) ==
    IF parts = <<>> THEN <<>>
    ELSE IF Len(parts) = 1 THEN parts[1]
    ELSE parts[1] \o <<44, 32>> \o JoinComma(Tail(parts))

\* tsql_in_list_str(names)
tsql_in_list_str(names) ==
    LET sorted == SortedByLower(names)
    IN  JoinComma([i \in DOMAIN sorted |-> nl(sorted[i])])

\* The text {inlist} as it is written in the source.
InlistField == <<123, 105, 110, 108, 105, 115, 116, 125>>

\* A literal with the f prefix: every {inlist} in it is replaced by the value.
RECURSIVE FString(_, _)
FString(literal, inlist) ==
    IF literal = <<>> THEN <<>>
    ELSE IF IsPrefix(InlistField, literal)
         THEN inlist \o FString(SubSeq(literal, Len(InlistField) + 1, Len(literal)), inlist)
    ELSE <<Head(literal)>> \o FString(Tail(literal), inlist)

\* script_server_clean(managed_logins): f""" ... """ + str(int(debugging)) +
\* """ ... IN ({inlist}) ... """ + str(int(debugging)) + """ ... IN ({inlist}) ... """.
\* Only the first literal has the f prefix, and it holds no field; the lists
\* of both phases are in the literals that follow.
script_server_clean(managed_logins) ==
    IF managed_logins = {} THEN [skipped |-> TRUE, s1 |-> <<>>, s1b |-> <<>>]
    ELSE LET inlist == tsql_in_list_str(managed_logins)
         IN  [skipped |-> FALSE,
              s1 |-> FString(<<>>, inlist) \o InlistField,
              s1b |-> InlistField]

\* managed_logins of build_full_script.  LoginName <<>> stands for None and
\* for "": both are false.
managed_logins(users, server_perms, server_membs, logins) ==
    {users[i].LoginName : i \in {x \in DOMAIN users :
                                    users[x].AuthType = "LOGIN" /\ users[x].LoginName /= <<>>}}
        \cup {server_perms[i].LoginName : i \in DOMAIN server_perms}
        \cup {server_membs[i].LoginName : i \in DOMAIN server_membs}
        \cup {logins[i].LoginName : i \in DOMAIN logins}

\* Login names: al, Bo, o'n
ClLoginNames == {<<97, 108>>, <<66, 111>>, <<111, 39, 110>>}

\* Rows as the loaders return them: a login name is never empty, and a user
\* has a LoginName exactly when its AuthType is LOGIN.
ClUserRows ==
    [AuthType : {"LOGIN"}, LoginName : ClLoginNames]
        \cup [AuthType : {"WITHOUT_LOGIN", "EXTERNAL"}, LoginName : {<<>>}]

ClLoginRows == [LoginName : ClLoginNames]

ClRowLists(rows) == UNION {[1..n -> rows] : n \in 0..MaxLoginRows}

ClInit ==
    /\ clIn \in [users : ClRowLists(ClUserRows), server_perms : ClRowLists(ClLoginRows),
                 server_membs : ClRowLists(ClLoginRows), logins : ClRowLists(ClLoginRows)]
    /\ clOut = [built |-> FALSE, managed_logins |-> {},
                script |-> [skipped |-> TRUE, s1 |-> <<>>, s1b |-> <<>>]]
    /\ OthersIdle("clean")

\* build_full_script: managed_logins and script_server_clean(managed_logins)
BuildServerClean ==
    /\ ~clOut.built
    /\ LET managed == managed_logins(clIn.users, clIn.server_perms, clIn.server_membs, clIn.logins)
       IN  clOut' = [built |-> TRUE, managed_logins |-> managed,
                     script |-> script_server_clean(managed)]
    /\ UNCHANGED clIn
    /\ ClFrame

SpecClean == ClInit /\ [][BuildServerClean]_vars

\* The logins the workbook refers to.
ReferencedLogins ==
    {clIn.users[i].LoginName : i \in {x \in DOMAIN clIn.users : clIn.users[x].AuthType = "LOGIN"}}
        \cup {clIn.server_perms[i].LoginName : i \in DOMAIN clIn.server_perms}
        \cup {clIn.server_membs[i].LoginName : i \in DOMAIN clIn.server_membs}
        \cup {clIn.logins[i].LoginName : i \in DOMAIN clIn.logins}

\* C14: the two server-level cleanup batches act on the principals whose name
\* is in the list of the logins the workbook refers to, and on no other: the
\* list of "m.name IN (...)" and of "grantee.name IN (...)" is the list of
\* those logins, and the cleanup is skipped exactly when there is none.
C14_CleanupScopedToManagedLogins ==
    clOut.built =>
        /\ clOut.script.skipped <=> ReferencedLogins = {}
        /\ ~clOut.script.skipped =>
                /\ clOut.script.s1 = tsql_in_list_str(ReferencedLogins)
                /\ clOut.script.s1b = tsql_in_list_str(ReferencedLogins)

\* The set the cleanup is given is the set of the referenced logins.
C14_ManagedAreReferenced ==
    clOut.built => clOut.managed_logins = ReferencedLogins

====
